---- MODULE Spec2Model ----
(***************************************************************************)
(* A model of the Wordplay language core: the immutable syntax tree and    *)
(* its replace protocol, the lowering of expressions to steps, the stepped *)
(* evaluator with its streams and scheduler, and the conflict analyses.    *)
(*                                                                         *)
(* Nodes live in a heap: a sequence of records, a node's identity being    *)
(* its index (its reference).  `new` appends to the heap.                  *)
(***************************************************************************)
EXTENDS Integers, Sequences, FiniteSets, TLC

VARIABLES
    heap,   \* every node ever constructed, by reference
    root,   \* the root node of the current program
    call,   \* the operation applied last, with its arguments
    ret,    \* what that operation returned
    edits,  \* how many edits the program has had
    ev,     \* the evaluator
    streams,    \* the history of every stream of the running program
    scheduler   \* the scheduler of re-evaluations

vars == <<heap, root, call, ret, edits, ev, streams, scheduler>>

\* `undefined`: an absent optional child.
None == 0

\* How many edits a program gets.
MaxEdits == 1

------------------------------------------------------------------------------
(* Nodes *)

\* A node that has no children of its own in this model.
Leaf(h, kind) ==
    [h |-> Append(h, [kind |-> kind]), id |-> Len(h) + 1]

\* new SetLiteral(open, values, close)
NewSetLiteral(h, open, values, close) ==
    [h |-> Append(h, [kind |-> "SetLiteral", open |-> open,
                      values |-> values, close |-> close]),
     id |-> Len(h) + 1]

\* SetLiteral.make(values): fresh open and close tokens.
SetLiteral_make(h, values) ==
    LET o == Leaf(h, "Token")
        c == Leaf(o.h, "Token")
    IN  NewSetLiteral(c.h, o.id, values, c.id)

\* new ConversionDefinition(docs, input, output, expression, convert):
\* docs that are not a Docs node are wrapped in a new Docs, and an absent
\* arrow becomes a new Token.
NewConversionDefinition(h, docs, input, output, expression, convert) ==
    LET d == IF docs # None /\ h[docs].kind = "Docs"
             THEN [h |-> h, id |-> docs] ELSE Leaf(h, "Docs")
        a == IF convert # None
             THEN [h |-> d.h, id |-> convert] ELSE Leaf(d.h, "Token")
    IN  [h |-> Append(a.h, [kind |-> "ConversionDefinition", docs |-> d.id,
                            arrow |-> a.id, input |-> input,
                            output |-> output, expression |-> expression]),
         id |-> Len(a.h) + 1]

\* new Select(table, select, row, query)
NewSelect(h, table, select, row, query) ==
    [h |-> Append(h, [kind |-> "Select", table |-> table, select |-> select,
                      row |-> row, query |-> query]),
     id |-> Len(h) + 1]

\* A row of cells, each cell holding one expression (row.cells,
\* cell.expression).
NewCell(h, expression) ==
    [h |-> Append(h, [kind |-> "Cell", expression |-> expression]),
     id |-> Len(h) + 1]

NewRow(h, cells) ==
    [h |-> Append(h, [kind |-> "Row", cells |-> cells]), id |-> Len(h) + 1]

\* A name token with its text.
NewToken(h, text) ==
    [h |-> Append(h, [kind |-> "Token", text |-> text]), id |-> Len(h) + 1]

\* A reference to what a name is bound to: a function or a stream.
NewReference(h, name) ==
    [h |-> Append(h, [kind |-> "Reference", name |-> name]),
     id |-> Len(h) + 1]

\* A block of statements; its value is the value of the last.
NewBlock(h, statements) ==
    [h |-> Append(h, [kind |-> "Block", statements |-> statements]),
     id |-> Len(h) + 1]

\* The definition of a function without inputs: its name and its body.
NewFunctionDefinition(h, name, expression) ==
    [h |-> Append(h, [kind |-> "FunctionDefinition", name |-> name,
                      expression |-> expression]),
     id |-> Len(h) + 1]

\* A call of what fun evaluates to.
NewEvaluate(h, fun) ==
    [h |-> Append(h, [kind |-> "Evaluate", fun |-> fun]), id |-> Len(h) + 1]

\* The value a stream had before its latest.
NewPrevious(h, stream) ==
    [h |-> Append(h, [kind |-> "Previous", stream |-> stream]),
     id |-> Len(h) + 1]

\* The child slots of a node in grammar order, None for an absent child.
Slots(h, n) ==
    LET r == h[n]
    IN  CASE r.kind = "ConversionDefinition" ->
                <<r.docs, r.arrow, r.input, r.output, r.expression>>
          [] r.kind = "SetLiteral" -> <<r.open>> \o r.values \o <<r.close>>
          [] r.kind = "Select" -> <<r.table, r.select, r.row, r.query>>
          [] r.kind = "Row" -> r.cells
          [] r.kind = "Cell" -> <<r.expression>>
          [] r.kind = "Reference" -> <<r.name>>
          [] r.kind = "Block" -> r.statements
          [] r.kind = "FunctionDefinition" -> <<r.name, r.expression>>
          [] r.kind = "Evaluate" -> <<r.fun>>
          [] r.kind = "Previous" -> <<r.stream>>
          [] OTHER -> <<>>

\* The children of a node.
Children(h, n) == SelectSeq(Slots(h, n), LAMBDA c : c # None)

RECURSIVE Nodes(_, _)
\* A node and all its descendants.
Nodes(h, n) ==
    {n} \cup UNION {Nodes(h, Children(h, n)[i]) :
                        i \in DOMAIN Children(h, n)}

\* The kinds that are expressions.
ExpressionKinds ==
    {"Name", "SetLiteral", "ConversionDefinition", "Select", "Reference",
     "Block", "FunctionDefinition", "Evaluate", "Previous"}

\* The grammar type of a slot that holds node n: what may replace n.
SlotType(h, n) ==
    IF h[n].kind \in ExpressionKinds THEN "Expression" ELSE h[n].kind

------------------------------------------------------------------------------
(* Replacing a child *)

RECURSIVE replace(_, _, _, _)
RECURSIVE replaceChildren(_, _, _, _)

\* Node.replaceChild for a single child: the replacement where the child is
\* the original, a rebuilt child where the original lies below it, and the
\* child itself, shared, otherwise.
replaceChild(h, child, original, replacement) ==
    IF child = None THEN [h |-> h, id |-> None]
    ELSE IF child = original THEN [h |-> h, id |-> replacement]
    ELSE IF original \in Nodes(h, child)
         THEN replace(h, child, original, replacement)
    ELSE [h |-> h, id |-> child]

\* Node.replaceChild for a list of children: element by element.
replaceChildren(h, list, original, replacement) ==
    IF list = <<>> THEN [h |-> h, ids |-> <<>>]
    ELSE LET first == replaceChild(h, Head(list), original, replacement)
             rest  == replaceChildren(first.h, Tail(list), original,
                                      replacement)
         IN  [h |-> rest.h, ids |-> <<first.id>> \o rest.ids]

\* A replace that hands the constructor input and output the wrong way round.
ConversionDefinition_replace_swapped(h, this, original, replacement) ==
    LET n == h[this]
        d == replaceChild(h, n.docs, original, replacement)
        i == replaceChild(d.h, n.input, original, replacement)
        o == replaceChild(i.h, n.output, original, replacement)
        e == replaceChild(o.h, n.expression, original, replacement)
        a == replaceChild(e.h, n.arrow, original, replacement)
    IN  NewConversionDefinition(a.h, d.id, o.id, i.id, e.id, a.id)

\* ConversionDefinition.replace
ConversionDefinition_replace(h, this, original, replacement) ==
    LET n == h[this]
        d == replaceChild(h, n.docs, original, replacement)
        i == replaceChild(d.h, n.input, original, replacement)
        o == replaceChild(i.h, n.output, original, replacement)
        e == replaceChild(o.h, n.expression, original, replacement)
        a == replaceChild(e.h, n.arrow, original, replacement)
    IN  NewConversionDefinition(a.h, d.id, i.id, o.id, e.id, a.id)

\* A clone that rebuilds every value instead of sharing the untouched ones.
SetLiteral_clone_deep(h, this, original, replacement) ==
    LET n == h[this]
        o == replaceChild(h, n.open, original, replacement)
        v == replaceChildren(o.h, n.values, original, replacement)
        c == replaceChild(v.h, n.close, original, replacement)
        f == Leaf(c.h, "Name")
    IN  NewSetLiteral(f.h, o.id,
                      [k \in DOMAIN v.ids |->
                          IF v.ids[k] = replacement \/ k > 1
                          THEN v.ids[k] ELSE f.id],
                      c.id)

\* SetLiteral.clone
SetLiteral_clone(h, this, original, replacement) ==
    LET n == h[this]
        o == replaceChild(h, n.open, original, replacement)
        v == replaceChildren(o.h, n.values, original, replacement)
        c == replaceChild(v.h, n.close, original, replacement)
    IN  NewSetLiteral(c.h, o.id, v.ids, c.id)

\* The replace of a node, by its kind.
replace(h, this, original, replacement) ==
    IF h[this].kind = "ConversionDefinition"
    THEN ConversionDefinition_replace(h, this, original, replacement)
    ELSE SetLiteral_clone(h, this, original, replacement)

\* The kinds whose replace is defined.
ReplaceKinds == {"ConversionDefinition", "SetLiteral"}

\* The parent of node n in the tree below r (None for r itself).
Parent(h, r, n) ==
    IF \E p \in Nodes(h, r) : \E i \in DOMAIN Children(h, p) :
           Children(h, p)[i] = n
    THEN CHOOSE p \in Nodes(h, r) : \E i \in DOMAIN Children(h, p) :
           Children(h, p)[i] = n
    ELSE None

RECURSIVE Ancestors(_, _, _)
\* The proper ancestors of n in the tree below r, the parent first.
Ancestors(h, r, n) ==
    IF Parent(h, r, n) = None THEN <<>>
    ELSE <<Parent(h, r, n)>> \o Ancestors(h, r, Parent(h, r, n))

\* The depth of n below r.
Depth(h, r, n) == Len(Ancestors(h, r, n))

Range(s) == {s[i] : i \in DOMAIN s}

------------------------------------------------------------------------------
(* Lowering expressions to steps *)

Start(n) == [step |-> "Start", node |-> n]
Finish(n) == [step |-> "Finish", node |-> n]

RECURSIVE compile(_, _)
RECURSIVE compileEach(_, _)

\* The reduce of SetLiteral.compile: the steps of each item appended to the
\* steps gathered so far, first item first.
compileEach(h, items) ==
    IF items = <<>> THEN <<>>
    ELSE compileEach(h, SubSeq(items, 1, Len(items) - 1))
             \o compile(h, items[Len(items)])

\* A compile that gathers the items last to first.
SetLiteral_compile_reversed(h, this) ==
    LET v == h[this].values
    IN  <<Start(this)>>
          \o compileEach(h, [k \in DOMAIN v |-> v[Len(v) + 1 - k]])
          \o <<Finish(this)>>

\* SetLiteral.compile
SetLiteral_compile(h, this) ==
    <<Start(this)>> \o compileEach(h, h[this].values) \o <<Finish(this)>>

\* A compile that also lowers the query.
Select_compile_query(h, this) ==
    <<Start(this)>> \o compile(h, h[this].table)
        \o compile(h, h[this].query) \o <<Finish(this)>>

\* Select.compile
Select_compile(h, this) ==
    <<Start(this)>> \o compile(h, h[this].table) \o <<Finish(this)>>

\* A compile that lowers the body of the definition between its markers.
ConversionDefinition_compile_body(h, this) ==
    <<Start(this)>> \o compile(h, h[this].expression) \o <<Finish(this)>>

\* A compile that starts the definition twice.
ConversionDefinition_compile_twice(h, this) ==
    <<Start(this), Start(this), Finish(this)>>

\* ConversionDefinition.compile
ConversionDefinition_compile(h, this) == <<Start(this), Finish(this)>>

\* The lowering of an expression without operands: its two markers.
Name_compile(h, this) == <<Start(this), Finish(this)>>

\* The lowering of a block: its statements in order between its markers.
Block_compile(h, this) ==
    <<Start(this)>> \o compileEach(h, h[this].statements) \o <<Finish(this)>>

\* The lowering of a call: the function expression between its markers; the
\* body of the function is lowered when it is called.
Evaluate_compile(h, this) ==
    <<Start(this)>> \o compile(h, h[this].fun) \o <<Finish(this)>>

\* The compile of an expression, by its kind; a reference, a function
\* definition and a Previous lower to their two markers.
compile(h, this) ==
    CASE h[this].kind = "SetLiteral" -> SetLiteral_compile(h, this)
      [] h[this].kind = "Select" -> Select_compile(h, this)
      [] h[this].kind = "ConversionDefinition" ->
            ConversionDefinition_compile(h, this)
      [] h[this].kind = "Block" -> Block_compile(h, this)
      [] h[this].kind = "Evaluate" -> Evaluate_compile(h, this)
      [] OTHER -> Name_compile(h, this)

------------------------------------------------------------------------------
(* Values and the evaluator *)

\* No value: what an evaluate that returns nothing returns.
NoValue == [type |-> "undefined"]

\* new Exception(node, type)
Exception(node, type) ==
    [type |-> "Exception", node |-> node, exception |-> type]

\* new ContextException(StackSize.EMPTY, evaluator)
ContextException(size) ==
    [type |-> "Exception", node |-> None, exception |-> "ContextException",
     size |-> size]

\* The exception of a value expected but absent.
ValueException ==
    [type |-> "Exception", node |-> None, exception |-> "ValueException"]

\* new Set(creator, values)
SetValue(creator, values) ==
    [type |-> "Set", creator |-> creator, values |-> values]

\* The value of an expression without operands.
TextValue(creator) == [type |-> "Text", creator |-> creator]

\* new NameException(name, scope, evaluator)
NameException(name, scope) ==
    [type |-> "Exception", node |-> None, exception |-> "NameException",
     name |-> name, scope |-> scope]

\* The exceptions of a run that took too many steps or called too deep.
StepLimitException ==
    [type |-> "Exception", node |-> None, exception |-> "StepLimitException"]
FunctionLimitException(fun) ==
    [type |-> "Exception", node |-> fun,
     exception |-> "FunctionLimitException"]

\* A function, a number a stream produced, and nothing.
FunctionValue(definition) == [type |-> "Function", definition |-> definition]
NumberValue(number) == [type |-> "Number", number |-> number]
NoneValue == [type |-> "None"]

\* How many steps a run may take and how many evaluations may be on the
\* stack before the run ends with an exception.
StepLimit == 20
FunctionLimit == 3

IsException(v) == v.type = "Exception"

\* An evaluator that has not started: no evaluation on its stack, no value.
Idle ==
    [state |-> "idle", evaluations |-> <<>>, values |-> <<>>,
     result |-> NoValue, trace |-> <<>>]

\* One evaluation on the evaluator's stack: the node it evaluates, its
\* steps, the step it is at, the conversions defined in it and its
\* bindings of names to values.
Evaluation(node, steps) ==
    [node |-> node, steps |-> steps, pc |-> 1, conversions |-> <<>>,
     bindings |-> <<>>]

\* Binding a name in the current evaluation.
bind(e, name, value) ==
    [e EXCEPT !.evaluations[1].bindings =
        Append(@, [name |-> name, value |-> value])]

\* What a name is bound to in the nearest evaluation that binds it, NoValue
\* when none does.
resolve(e, name) ==
    LET binds(f) == {b \in DOMAIN e.evaluations[f].bindings :
                        e.evaluations[f].bindings[b].name = name}
        frames == {f \in DOMAIN e.evaluations : binds(f) # {}}
    IN  IF frames = {} THEN NoValue
        ELSE LET f == CHOOSE f \in frames : \A g \in frames : f <= g
                 b == CHOOSE b \in binds(f) : \A c \in binds(f) : c <= b
             IN  e.evaluations[f].bindings[b].value

\* Evaluator.getCurrentEvaluation: the evaluation on top of the stack.
HasCurrentEvaluation(e) == e.evaluations # <<>>
getCurrentEvaluation(e) == Head(e.evaluations)

\* Evaluator.popValue: the value on top of the value stack, taken off it.
popValue(e) ==
    IF e.values = <<>> THEN [e |-> e, value |-> ValueException]
    ELSE [e |-> [e EXCEPT !.values = Tail(@)], value |-> Head(e.values)]

\* Evaluator.pushValue
pushValue(e, v) == [e EXCEPT !.values = <<v>> \o @]

\* A select that evaluates to an empty set.
Select_evaluate_set(this) == SetValue(this, <<>>)

\* Select.evaluate
Select_evaluate(this) == Exception(this, "NOT_IMPLEMENTED")

RECURSIVE popValues(_, _, _)
\* The loop of SetLiteral.evaluate: each popped value goes to the front.
popValues(e, count, values) ==
    IF count = 0 THEN [e |-> e, value |-> values]
    ELSE LET p == popValue(e)
         IN  popValues(p.e, count - 1, <<p.value>> \o values)

\* An evaluate that builds its set again whatever it built before.
SetLiteral_evaluate_again(e, h, this, prior) ==
    LET p == popValues(e, Len(h[this].values), <<>>)
    IN  [e |-> p.e, value |-> SetValue(this, p.value)]

\* SetLiteral.evaluate
SetLiteral_evaluate(e, h, this, prior) ==
    IF prior # NoValue THEN [e |-> e, value |-> prior]
    ELSE LET p == popValues(e, Len(h[this].values), <<>>)
         IN  [e |-> p.e, value |-> SetValue(this, p.value)]

\* Evaluation.addConversion(new Conversion(definition, context)) on the
\* current evaluation.
addConversion(e, definition) ==
    [e EXCEPT !.evaluations[1].conversions =
        Append(@, [definition |-> definition,
                   context |-> getCurrentEvaluation(e).node])]

\* An evaluate that registers the conversion in every evaluation on the
\* stack.
ConversionDefinition_evaluate_all(e, this) ==
    IF ~HasCurrentEvaluation(e)
    THEN [e |-> e, value |-> ContextException("EMPTY")]
    ELSE [e |-> [e EXCEPT !.evaluations =
                    [f \in DOMAIN @ |->
                        [@[f] EXCEPT !.conversions =
                            Append(@, [definition |-> this,
                                       context |-> e.evaluations[f].node])]]],
          value |-> NoValue]

\* ConversionDefinition.evaluate
ConversionDefinition_evaluate(e, this) ==
    IF ~HasCurrentEvaluation(e)
    THEN [e |-> e, value |-> ContextException("EMPTY")]
    ELSE [e |-> addConversion(e, this), value |-> NoValue]

\* The evaluate of an expression without operands.
Name_evaluate(e, this) == [e |-> e, value |-> TextValue(this)]

\* The first value a stream produced.
latest_first(history) ==
    IF history = <<>> THEN NoneValue ELSE NumberValue(history[1])

\* The latest value of a stream and the one before it; nothing when the
\* stream has not produced that many.
latest(history) ==
    IF history = <<>> THEN NoneValue
    ELSE NumberValue(history[Len(history)])
previous(history) ==
    IF Len(history) < 2 THEN NoneValue
    ELSE NumberValue(history[Len(history) - 1])

\* A reference that takes an unknown name for nothing.
Reference_evaluate_nothing(e, h, s, this) ==
    LET text == h[h[this].name].text
    IN  IF resolve(e, text) # NoValue
        THEN [e |-> e, value |-> resolve(e, text)]
        ELSE IF text \in DOMAIN s THEN [e |-> e, value |-> latest(s[text])]
        ELSE [e |-> e, value |-> NoneValue]

\* The evaluate of a reference: what the name is bound to, the latest value
\* of the stream of that name, or a NameException of the name, in no scope.
Reference_evaluate(e, h, s, this) ==
    LET text == h[h[this].name].text
    IN  IF resolve(e, text) # NoValue
        THEN [e |-> e, value |-> resolve(e, text)]
        ELSE IF text \in DOMAIN s THEN [e |-> e, value |-> latest(s[text])]
        ELSE [e |-> e, value |-> NameException(h[this].name, NoValue)]

\* A Previous that reads the latest value.
Previous_evaluate_latest(e, h, s, this) ==
    LET name == h[h[this].stream].name
    IN  IF h[name].text \in DOMAIN s
        THEN [e |-> e, value |-> latest(s[h[name].text])]
        ELSE [e |-> e, value |-> NameException(name, NoValue)]

\* The evaluate of a Previous: the value its stream had before the latest,
\* read from the history the stream retains.
Previous_evaluate(e, h, s, this) ==
    LET name == h[h[this].stream].name
    IN  IF h[name].text \in DOMAIN s
        THEN [e |-> e, value |-> previous(s[h[name].text])]
        ELSE [e |-> e, value |-> NameException(name, NoValue)]

\* The evaluate of a function definition: its name is bound to the function
\* in the current evaluation.
FunctionDefinition_evaluate(e, h, this) ==
    [e |-> bind(e, h[h[this].name].text, FunctionValue(this)),
     value |-> NoValue]

\* A call that does not look at the depth of the stack.
Evaluate_evaluate_unlimited(e, h, this) ==
    LET p == popValue(e)
    IN  IF IsException(p.value) THEN p
        ELSE IF p.value.type # "Function"
        THEN [e |-> p.e, value |-> Exception(this, "TYPE")]
        ELSE LET body == h[p.value.definition].expression
             IN  [e |-> [p.e EXCEPT !.evaluations =
                            <<Evaluation(body, compile(h, body))>> \o @],
                  value |-> NoValue]

\* The evaluate of a call: a new evaluation of the body of the function on
\* top of the stack, unless the stack is as deep as it may get.
Evaluate_evaluate(e, h, this) ==
    LET p == popValue(e)
    IN  IF IsException(p.value) THEN p
        ELSE IF p.value.type # "Function"
        THEN [e |-> p.e, value |-> Exception(this, "TYPE")]
        ELSE IF Len(p.e.evaluations) >= FunctionLimit
        THEN [e |-> p.e, value |-> FunctionLimitException(p.value.definition)]
        ELSE LET body == h[p.value.definition].expression
             IN  [e |-> [p.e EXCEPT !.evaluations =
                            <<Evaluation(body, compile(h, body))>> \o @],
                  value |-> NoValue]

\* The statements of a block that leave a value.
valuesOf(h, statements) ==
    SelectSeq(statements,
              LAMBDA n : h[n].kind \notin {"FunctionDefinition",
                                           "ConversionDefinition"})

\* The evaluate of a block: the value of its last statement.
Block_evaluate(e, h, this) ==
    LET p == popValues(e, Len(valuesOf(h, h[this].statements)), <<>>)
    IN  [e |-> p.e,
         value |-> IF p.value = <<>> THEN NoneValue
                   ELSE p.value[Len(p.value)]]

\* The evaluate of a node, by its kind.
evaluate(e, h, s, this, prior) ==
    CASE h[this].kind = "Select" -> [e |-> e, value |-> Select_evaluate(this)]
      [] h[this].kind = "SetLiteral" -> SetLiteral_evaluate(e, h, this, prior)
      [] h[this].kind = "ConversionDefinition" ->
            ConversionDefinition_evaluate(e, this)
      [] h[this].kind = "Reference" -> Reference_evaluate(e, h, s, this)
      [] h[this].kind = "Previous" -> Previous_evaluate(e, h, s, this)
      [] h[this].kind = "FunctionDefinition" ->
            FunctionDefinition_evaluate(e, h, this)
      [] h[this].kind = "Evaluate" -> Evaluate_evaluate(e, h, this)
      [] h[this].kind = "Block" -> Block_evaluate(e, h, this)
      [] OTHER -> Name_evaluate(e, this)

\* An exception that ends the current evaluation only.
halt_evaluation(e, exception) ==
    IF Len(e.evaluations) <= 1
    THEN [e EXCEPT !.state = "exception", !.evaluations = <<>>,
                   !.result = exception]
    ELSE [e EXCEPT !.evaluations = Tail(@)]

\* The evaluator after an exception: its evaluations unwound, the exception
\* its result.
halt(e, exception) ==
    [e EXCEPT !.state = "exception", !.evaluations = <<>>,
              !.result = exception]

RECURSIVE endEvaluation(_)
\* The current evaluation is over: it is popped, and so is every evaluation
\* below it that has no step left; with no evaluation left the evaluator is
\* done, its result the value on top of the stack.
endEvaluation(e) ==
    LET rest == Tail(e.evaluations)
    IN  IF rest = <<>>
        THEN [e EXCEPT !.state = "done", !.evaluations = <<>>,
                       !.result = IF e.values = <<>> THEN NoValue
                                  ELSE Head(e.values)]
        ELSE IF Head(rest).pc > Len(Head(rest).steps)
        THEN endEvaluation([e EXCEPT !.evaluations = rest])
        ELSE [e EXCEPT !.evaluations = rest]

\* The evaluator after the step at the current evaluation's pc was done:
\* on to the next step, or the evaluation is over.
advance(e) ==
    LET c == getCurrentEvaluation(e)
    IN  IF c.pc < Len(c.steps)
        THEN [e EXCEPT !.evaluations[1].pc = @ + 1]
        ELSE endEvaluation(e)

\* One step of the evaluator: a Start marks the node, a Finish evaluates it
\* and pushes its value; an exception ends the run, and so does a step
\* beyond the limit. After a call the caller is past the call, and the
\* evaluation of the function is at its first step.
step(e, h, s) ==
    LET c == getCurrentEvaluation(e)
        n == c.steps[c.pc]
        t == [e EXCEPT !.trace = Append(@, n)]
    IN  IF Len(e.trace) >= StepLimit THEN halt(e, StepLimitException)
        ELSE IF n.step = "Start" THEN advance(t)
        ELSE LET r == evaluate(t, h, s, n.node, NoValue)
                 v == IF r.value = NoValue THEN r.e
                      ELSE pushValue(r.e, r.value)
             IN  IF IsException(r.value) THEN halt(r.e, r.value)
                 ELSE IF Len(r.e.evaluations) > Len(t.evaluations)
                 THEN [v EXCEPT !.evaluations[2].pc = @ + 1]
                 ELSE advance(v)

------------------------------------------------------------------------------
(* Programs *)

\* A conversion whose body is a set holding a name and a set of one name.
ProgramConversion ==
    LET d  == Leaf(<<>>, "Docs")
        i  == Leaf(d.h, "Type")
        o  == Leaf(i.h, "Type")
        a  == Leaf(o.h, "Name")
        b  == Leaf(a.h, "Name")
        s1 == SetLiteral_make(b.h, <<b.id>>)
        s2 == SetLiteral_make(s1.h, <<a.id, s1.id>>)
    IN  NewConversionDefinition(s2.h, d.id, i.id, o.id, s2.id, None)

\* A set, its close token missing, of a conversion, a name and an empty set.
ProgramSet ==
    LET d  == Leaf(<<>>, "Docs")
        i  == Leaf(d.h, "Type")
        o  == Leaf(i.h, "Type")
        e  == Leaf(o.h, "Name")
        t  == Leaf(e.h, "Token")
        c  == NewConversionDefinition(t.h, d.id, i.id, o.id, e.id, t.id)
        n  == Leaf(c.h, "Name")
        s  == SetLiteral_make(n.h, <<>>)
        p  == Leaf(s.h, "Token")
    IN  NewSetLiteral(p.h, p.id, <<c.id, n.id, s.id>>, None)

\* A select from a set of two names, of two columns, with a name as query.
ProgramSelect ==
    LET a  == Leaf(<<>>, "Name")
        b  == Leaf(a.h, "Name")
        t  == SetLiteral_make(b.h, <<a.id, b.id>>)
        k  == Leaf(t.h, "Token")
        x  == Leaf(k.h, "Name")
        cx == NewCell(x.h, x.id)
        y  == Leaf(cx.h, "Name")
        cy == NewCell(y.h, y.id)
        r  == NewRow(cy.h, <<cx.id, cy.id>>)
        q  == Leaf(r.h, "Name")
    IN  NewSelect(q.h, t.id, k.id, r.id, q.id)

\* A set of a name, a select whose query is a set, and a name.
ProgramSetOfSelect ==
    LET a  == Leaf(<<>>, "Name")
        t  == Leaf(a.h, "Name")
        k  == Leaf(t.h, "Token")
        x  == SetLiteral_make(k.h, <<>>)
        cx == NewCell(x.h, x.id)
        r  == NewRow(cx.h, <<cx.id>>)
        u  == Leaf(r.h, "Name")
        q  == SetLiteral_make(u.h, <<u.id>>)
        s  == NewSelect(q.h, t.id, k.id, r.id, q.id)
        b  == Leaf(s.h, "Name")
    IN  SetLiteral_make(b.h, <<a.id, s.id, b.id>>)

\* A set of three names.
ProgramNames ==
    LET a == Leaf(<<>>, "Name")
        b == Leaf(a.h, "Name")
        c == Leaf(b.h, "Name")
    IN  SetLiteral_make(c.h, <<a.id, b.id, c.id>>)

Programs ==
    <<ProgramConversion, ProgramSet, ProgramSelect, ProgramSetOfSelect,
      ProgramNames>>

------------------------------------------------------------------------------
(* Editing and compiling a program *)

NoCall == [op |-> "none"]

\* A program without streams: no history, and a scheduler with nothing to do.
NoStreams == <<>>
NoTicks ==
    [dirty |-> FALSE, ticks |-> 0, runs |-> 0, pending |-> 0,
     coalesced |-> 0]

Init ==
    /\ \E p \in DOMAIN Programs :
           heap = Programs[p].h /\ root = Programs[p].id
    /\ call = NoCall
    /\ ret = None
    /\ edits = 0
    /\ ev = Idle
    /\ streams = NoStreams
    /\ scheduler = NoTicks

\* Whether root.replace reaches the original through nodes that define replace.
Replaceable(h, r, original) ==
    /\ original \in Nodes(h, r) \ {r}
    /\ \A p \in Range(Ancestors(h, r, original)) : h[p].kind \in ReplaceKinds

\* A fresh node of the given kind to put in a slot.
NewReplacement(h, kind) ==
    IF kind = "SetLiteral" THEN SetLiteral_make(h, <<>>) ELSE Leaf(h, kind)

\* The kinds of node that fit the slot holding n.
ReplacementKinds(h, n) ==
    IF SlotType(h, n) = "Expression" THEN {"Name", "SetLiteral"}
    ELSE {SlotType(h, n)}

\* An edit: the program becomes root.replace(original, replacement) for a
\* fresh replacement.
Replace ==
    \E original \in Nodes(heap, root) :
        /\ edits < MaxEdits
        /\ edits' = edits + 1
        /\ Replaceable(heap, root, original)
        /\ \E kind \in ReplacementKinds(heap, original) :
            LET r   == NewReplacement(heap, kind)
                res == replace(r.h, root, original, r.id)
            IN  /\ heap' = res.h
                /\ root' = res.id
                /\ call' = [op |-> "replace", this |-> root,
                            original |-> original, replacement |-> r.id,
                            before |-> r.h]
                /\ ret' = res.id
                /\ UNCHANGED <<ev, streams, scheduler>>

\* Lowering one expression of the program.
Compile ==
    \E n \in Nodes(heap, root) :
        /\ heap[n].kind \in ExpressionKinds
        /\ call' = [op |-> "compile", this |-> n]
        /\ ret' = compile(heap, n)
        /\ UNCHANGED <<heap, root, edits, ev, streams, scheduler>>

Next == Replace \/ Compile

Spec == Init /\ [][Next]_vars

------------------------------------------------------------------------------
(* Properties of replace *)

\* The state after an edit whose original is a direct child of the root.
DirectReplace ==
    /\ call.op = "replace"
    /\ Parent(call.before, call.this, call.original) = call.this

\* No node that existed before the last edit has changed.
NothingMutated == \A i \in DOMAIN call.before : heap[i] = call.before[i]

\* C1: replacing a direct child of a ConversionDefinition or SetLiteral
\* returns a new node of the same kind in which exactly the slot of the
\* original holds the replacement and every other slot holds the very child
\* the original node holds; the original node is unchanged afterwards.
C1_ReplaceDirectChild ==
    DirectReplace =>
        LET old == Slots(call.before, call.this)
            new == Slots(heap, ret)
        IN  /\ ret \notin DOMAIN call.before
            /\ heap[ret].kind = call.before[call.this].kind
            /\ Len(new) = Len(old)
            /\ \A k \in DOMAIN old :
                   new[k] = IF old[k] = call.original
                            THEN call.replacement ELSE old[k]
            /\ Cardinality({k \in DOMAIN new : new[k] = call.replacement}) = 1
            /\ NothingMutated

\* A conversion definition whose input type was replaced.
C1_Witness ==
    /\ DirectReplace
    /\ call.before[call.this].kind = "ConversionDefinition"
    /\ call.before[call.this].input = call.original
    /\ heap[ret].input = call.replacement

\* The nodes of the edited tree that the edit constructed.
Fresh == Nodes(heap, ret) \ DOMAIN call.before

\* C2 as stated: after replacing a node at any depth, every node of the
\* result other than its root and the replacement is a node of the original
\* tree.
C2_OnlyRootIsNew ==
    call.op = "replace" =>
        \A n \in Nodes(heap, ret) \ ({ret} \cup Nodes(heap, call.replacement)) :
            n \in Nodes(call.before, call.this)

\* C2, amended: replacing a node at depth d returns a new root; exactly the
\* d nodes on the path from the root to the replaced node are rebuilt, each
\* as a new node of the same kind, and every other node of the result, the
\* replacement aside, is the very node of the original tree, which is
\* unchanged.
C2_PathIsRebuilt ==
    call.op = "replace" =>
        LET oldPath == Ancestors(call.before, call.this, call.original)
            newPath == Ancestors(heap, ret, call.replacement)
            oldTree == Nodes(call.before, call.this)
        IN  /\ ret \in Fresh
            /\ Fresh = Range(newPath)
            /\ Len(newPath) = Len(oldPath)
            /\ \A k \in DOMAIN oldPath :
                   heap[newPath[k]].kind = call.before[oldPath[k]].kind
            /\ Nodes(heap, ret) \ (Fresh \cup Nodes(heap, call.replacement))
                 = oldTree \ (Range(oldPath)
                               \cup Nodes(call.before, call.original))
            /\ NothingMutated

\* A node three levels below the root was replaced.
C2_Witness ==
    /\ call.op = "replace"
    /\ Depth(call.before, call.this, call.original) = 3
    /\ Cardinality(Fresh) = 3

------------------------------------------------------------------------------
(* Properties of compile *)

\* The places of the steps list s that belong to the subtree of node c.
Places(s, c) == {k \in DOMAIN s : s[k].node \in Nodes(heap, c)}

\* Whether a set of places is one unbroken run.
Contiguous(P) == \A a \in P : \A b \in P : \A k \in a..b : k \in P

RECURSIVE Nested(_, _)
\* Whether every Finish in s closes the Start opened last (open: the nodes
\* started and not yet finished, the last one first).
Nested(s, open) ==
    IF s = <<>> THEN open = <<>>
    ELSE IF Head(s).step = "Start"
         THEN Nested(Tail(s), <<Head(s).node>> \o open)
    ELSE /\ open # <<>>
         /\ Head(open) = Head(s).node
         /\ Nested(Tail(s), Tail(open))

\* The state after compiling a node of one of the given kinds.
Compiled(kinds) == call.op = "compile" /\ heap[call.this].kind \in kinds

\* C3: the steps of a ConversionDefinition, SetLiteral or Select begin with
\* Start(this) and end with Finish(this), hold no other step of this node,
\* and the steps of each sub-expression that was lowered are one run
\* strictly between the two; the markers are properly nested.
C3_StartFinishBracket ==
    Compiled({"ConversionDefinition", "SetLiteral", "Select"}) =>
        LET n == call.this
        IN  /\ Len(ret) >= 2
            /\ ret[1] = Start(n)
            /\ ret[Len(ret)] = Finish(n)
            /\ \A k \in 2..(Len(ret) - 1) : ret[k].node # n
            /\ \A i \in DOMAIN Children(heap, n) :
                   LET P == Places(ret, Children(heap, n)[i])
                   IN  /\ Contiguous(P)
                       /\ 1 \notin P
                       /\ Len(ret) \notin P
            /\ Nested(ret, <<>>)

\* A set literal holding a select was compiled.
C3_Witness ==
    /\ Compiled({"SetLiteral"})
    /\ \E i \in DOMAIN heap[call.this].values :
           heap[heap[call.this].values[i]].kind = "Select"
    /\ Len(ret) > 4

\* C4: SetLiteral.compile is Start, the steps of each value from the first
\* to the last, Finish: all steps of an earlier value precede all steps of a
\* later one and each value is lowered exactly once.
C4_SetLiteralLeftToRight ==
    Compiled({"SetLiteral"}) =>
        LET v == heap[call.this].values
        IN  /\ \A i \in DOMAIN v : \A j \in DOMAIN v :
                   i < j => \A a \in Places(ret, v[i]) :
                                \A b \in Places(ret, v[j]) : a < b
            /\ \A i \in DOMAIN v :
                   /\ Places(ret, v[i]) # {}
                   /\ LET P == Places(ret, v[i])
                          lo == CHOOSE a \in P : \A b \in P : a <= b
                      IN  SubSeq(ret, lo, lo + Cardinality(P) - 1)
                              = compile(heap, v[i])
            /\ Places(ret, call.this) = DOMAIN ret
            /\ Cardinality(UNION {Places(ret, v[i]) : i \in DOMAIN v})
                   = Len(ret) - 2

\* A set literal of three values, one of them compound, was compiled.
C4_Witness ==
    /\ Compiled({"SetLiteral"})
    /\ Len(heap[call.this].values) = 3
    /\ Len(ret) > 8

\* C5: Select.compile is Start(select), the steps of the table expression,
\* Finish(select); no step of the row's cells or of the query is in it.
C5_SelectLowersTableOnly ==
    Compiled({"Select"}) =>
        LET n == heap[call.this]
        IN  /\ ret = <<Start(call.this)>> \o compile(heap, n.table)
                        \o <<Finish(call.this)>>
            /\ \A k \in DOMAIN ret :
                   ret[k].node \notin Nodes(heap, n.row) \cup Nodes(heap, n.query)
            /\ Places(ret, n.table) = 2..(Len(ret) - 1)

\* A select with cells and a compound query was compiled.
C5_Witness ==
    /\ Compiled({"Select"})
    /\ heap[heap[call.this].query].kind = "SetLiteral"
    /\ heap[heap[call.this].row].cells # <<>>
    /\ Len(ret) = 4

------------------------------------------------------------------------------
(* Evaluating a program *)

\* An edit of a program that is not being evaluated.
EvEdit == ev.state = "idle" /\ Replace

\* start: a fresh evaluation of the program, whatever ran before is dropped.
EvStart ==
    /\ ev' = [Idle EXCEPT !.state = "running",
                          !.evaluations = <<Evaluation(root,
                                                       compile(heap, root))>>]
    /\ ev.state # "running"
    /\ UNCHANGED <<heap, root, call, ret, edits, streams, scheduler>>

\* The evaluator takes one step.
EvStep ==
    /\ ev.state \in {"running", "stepping"}
    /\ ev' = step(ev, heap, streams)
    /\ UNCHANGED <<heap, root, call, ret, edits, streams, scheduler>>

\* Pausing between two steps, and playing on.
EvPause ==
    /\ ev.state = "running"
    /\ ev' = [ev EXCEPT !.state = "stepping"]
    /\ UNCHANGED <<heap, root, call, ret, edits, streams, scheduler>>

EvPlay ==
    /\ ev.state = "stepping"
    /\ ev' = [ev EXCEPT !.state = "running"]
    /\ UNCHANGED <<heap, root, call, ret, edits, streams, scheduler>>

NextEval == EvEdit \/ EvStart \/ EvStep \/ EvPause \/ EvPlay

SpecEval == Init /\ [][NextEval]_vars

\* C6: a step that cannot produce a value yields a typed exception and the
\* host goes on: finishing a Select yields an Exception of type
\* NOT_IMPLEMENTED whatever the evaluator holds, no step runs after it, and
\* it is the result the evaluator ends with.
C6_SelectNotImplemented ==
    \A k \in DOMAIN ev.trace :
        (ev.trace[k].step = "Finish" /\ heap[ev.trace[k].node].kind = "Select")
            => /\ k = Len(ev.trace)
               /\ ev.state = "exception"
               /\ ev.result = Exception(ev.trace[k].node, "NOT_IMPLEMENTED")

\* A select inside a set literal was finished with a value on the stack.
C6_Witness ==
    /\ ev.state = "exception"
    /\ ev.values # <<>>
    /\ ev.trace # <<>>
    /\ ev.trace[Len(ev.trace)].step = "Finish"
    /\ heap[ev.trace[Len(ev.trace)].node].kind = "Select"
    /\ ev.trace[Len(ev.trace)].node # root
    /\ ev.result.exception = "NOT_IMPLEMENTED"

------------------------------------------------------------------------------
(* Running a program: calls, limits and streams *)

\* How many values the stream produces and how many ticks the scheduler
\* gets.
MaxProduces == 3
MaxTicks == 2

\* The values a stream produces.
StreamValues == {1, 2}

\* f is a set of an undefined name and a name; the program is a set of a
\* call of f and a name.
ProgramUndefined ==
    LET tg == NewToken(<<>>, "g")
        g  == NewReference(tg.h, tg.id)
        a  == Leaf(g.h, "Name")
        b  == SetLiteral_make(a.h, <<g.id, a.id>>)
        tf == NewToken(b.h, "f")
        d  == NewFunctionDefinition(tf.h, tf.id, b.id)
        tr == NewToken(d.h, "f")
        r  == NewReference(tr.h, tr.id)
        c  == NewEvaluate(r.h, r.id)
        n  == Leaf(c.h, "Name")
        s  == SetLiteral_make(n.h, <<c.id, n.id>>)
    IN  NewBlock(s.h, <<d.id, s.id>>)

\* f is a name; the program calls f.
ProgramCall ==
    LET a  == Leaf(<<>>, "Name")
        tf == NewToken(a.h, "f")
        d  == NewFunctionDefinition(tf.h, tf.id, a.id)
        tr == NewToken(d.h, "f")
        r  == NewReference(tr.h, tr.id)
        c  == NewEvaluate(r.h, r.id)
    IN  NewBlock(c.h, <<d.id, c.id>>)

\* f calls f; the program calls f.
ProgramRecursion ==
    LET t1 == NewToken(<<>>, "f")
        r1 == NewReference(t1.h, t1.id)
        c1 == NewEvaluate(r1.h, r1.id)
        tf == NewToken(c1.h, "f")
        d  == NewFunctionDefinition(tf.h, tf.id, c1.id)
        t2 == NewToken(d.h, "f")
        r2 == NewReference(t2.h, t2.id)
        c2 == NewEvaluate(r2.h, r2.id)
    IN  NewBlock(c2.h, <<d.id, c2.id>>)

\* f is a set of two names and a call of f; the program calls f.
ProgramLoop ==
    LET a  == Leaf(<<>>, "Name")
        b  == Leaf(a.h, "Name")
        t1 == NewToken(b.h, "f")
        r1 == NewReference(t1.h, t1.id)
        c1 == NewEvaluate(r1.h, r1.id)
        s  == SetLiteral_make(c1.h, <<a.id, b.id, c1.id>>)
        tf == NewToken(s.h, "f")
        d  == NewFunctionDefinition(tf.h, tf.id, s.id)
        t2 == NewToken(d.h, "f")
        r2 == NewReference(t2.h, t2.id)
        c2 == NewEvaluate(r2.h, r2.id)
    IN  NewBlock(c2.h, <<d.id, c2.id>>)

\* A set of the stream s and of Previous(s).
ProgramReaction ==
    LET t1 == NewToken(<<>>, "s")
        r1 == NewReference(t1.h, t1.id)
        t2 == NewToken(r1.h, "s")
        r2 == NewReference(t2.h, t2.id)
        p  == NewPrevious(r2.h, r2.id)
    IN  SetLiteral_make(p.h, <<r1.id, p.id>>)

RunPrograms ==
    <<ProgramUndefined, ProgramCall, ProgramRecursion, ProgramLoop,
      ProgramReaction>>

\* A program with the stream s, which has produced nothing yet.
InitRun ==
    /\ \E p \in DOMAIN RunPrograms :
           heap = RunPrograms[p].h /\ root = RunPrograms[p].id
    /\ call = NoCall
    /\ ret = None
    /\ edits = 0
    /\ ev = Idle
    /\ streams = [s |-> <<>>]
    /\ scheduler = NoTicks

\* A fresh evaluation of the program: a new stack of one evaluation, no
\* value; the streams are not the evaluator's to reset.
start(h, r) ==
    [Idle EXCEPT !.state = "running",
                 !.evaluations = <<Evaluation(r, compile(h, r))>>]

\* start: the first evaluation of the program.
RunStart ==
    /\ ev.state = "idle"
    /\ ev' = start(heap, root)
    /\ UNCHANGED <<heap, root, call, ret, edits, streams, scheduler>>

\* The evaluator takes one step.
RunStep ==
    /\ ev.state = "running"
    /\ ev' = step(ev, heap, streams)
    /\ UNCHANGED <<heap, root, call, ret, edits, streams, scheduler>>

\* produce(value): the value is appended to the history of the stream and
\* the program is marked dirty.
Produce ==
    \E value \in StreamValues :
        /\ ev.state # "idle"
        /\ Len(streams.s) < MaxProduces
        /\ streams' = [streams EXCEPT !.s = Append(@, value)]
        /\ scheduler' = [scheduler EXCEPT !.dirty = TRUE, !.pending = @ + 1]
        /\ call' = [op |-> "produce", stream |-> "s", value |-> value]
        /\ UNCHANGED <<heap, root, ret, edits, ev>>

\* A tick of the scheduler: a dirty program is evaluated again from scratch,
\* whatever was running is dropped; a clean program is left alone.
Tick ==
    /\ ev.state # "idle"
    /\ scheduler.ticks < MaxTicks
    /\ IF scheduler.dirty
       THEN /\ scheduler' = [scheduler EXCEPT !.dirty = FALSE,
                                 !.ticks = @ + 1, !.runs = @ + 1,
                                 !.pending = 0,
                                 !.coalesced = scheduler.pending]
            /\ ev' = start(heap, root)
       ELSE /\ scheduler' = [scheduler EXCEPT !.ticks = @ + 1]
            /\ UNCHANGED ev
    /\ UNCHANGED <<heap, root, call, ret, edits, streams>>

NextRun == RunStart \/ RunStep \/ Produce \/ Tick

SpecRun == InitRun /\ [][NextRun]_vars

\* The same, with an evaluator that is driven on while it is running.
SpecTermination == SpecRun /\ WF_vars(RunStep)

\* The step the evaluator is at, and whether the evaluator takes it next.
CurrentStep ==
    getCurrentEvaluation(ev).steps[getCurrentEvaluation(ev).pc]
Stepped == ev.state = "running" /\ ev'.trace = Append(ev.trace, CurrentStep)

\* The names the program defines: those of its function definitions and
\* those of its streams.
DefinedNames ==
    {heap[heap[n].name].text :
        n \in {d \in DOMAIN heap : heap[d].kind = "FunctionDefinition"}}
        \cup DOMAIN streams

\* The references of the program to a name it does not define.
UndefinedReferences ==
    {n \in DOMAIN heap : /\ heap[n].kind = "Reference"
                         /\ heap[heap[n].name].text \notin DefinedNames}

\* C13: evaluating a reference to a name that is not defined yields a
\* NameException of the name token and the scope, which is the result the
\* run ends with; the evaluator is in its exception state, it has not
\* failed. No other step yields a NameException.
C13_UndefinedName ==
    /\ \A k \in DOMAIN ev.trace :
           (ev.trace[k].step = "Finish"
               /\ ev.trace[k].node \in UndefinedReferences)
               => /\ k = Len(ev.trace)
                  /\ ev.state = "exception"
                  /\ ev.result =
                         NameException(heap[ev.trace[k].node].name, NoValue)
    /\ (ev.state = "exception" /\ ev.result.exception = "NameException")
           => /\ ev.trace[Len(ev.trace)].step = "Finish"
              /\ ev.trace[Len(ev.trace)].node \in UndefinedReferences
    /\ ev.state \in {"idle", "running", "stepping", "done", "exception"}

\* The undefined name g was referred to in the function the program calls.
C13_Witness ==
    /\ ev.state = "exception"
    /\ ev.result.exception = "NameException"
    /\ heap[ev.result.name].text = "g"
    /\ ev.result.scope = NoValue
    /\ heap[ev.trace[Len(ev.trace)].node].kind = "Reference"

\* Whether the step the evaluator is at produces an exception.
ProducesException ==
    /\ ev.state = "running"
    /\ CurrentStep.step = "Finish"
    /\ IsException(evaluate(ev, heap, streams, CurrentStep.node,
                            NoValue).value)

\* What a step that produces an exception leaves, and what follows a run
\* that ended with an exception: nothing, or a run from scratch.
HaltsAtOnce ==
    (ProducesException /\ Stepped)
        => /\ ev'.state = "exception"
           /\ ev'.evaluations = <<>>
           /\ ev'.result = evaluate(ev, heap, streams, CurrentStep.node,
                                    NoValue).value
StaysHalted ==
    ev.state = "exception" => (ev' = ev \/ ev' = start(heap, root))

\* C14: once a step produces an exception the evaluation halts: all
\* evaluations are unwound, the exception is the result, the evaluator is in
\* its exception state and never done with a value, and no step that was
\* outstanding is taken afterwards.
C14_ExceptionHalts ==
    /\ [][HaltsAtOnce /\ StaysHalted]_vars
    /\ [](ev.state = "exception"
            => ev.evaluations = <<>> /\ IsException(ev.result))
    /\ [](ev.state = "done" => ~IsException(ev.result))
    /\ [](\A k \in DOMAIN ev.values : ~IsException(ev.values[k]))

\* An exception in the function that the program calls: the steps of the
\* function and of the program that were outstanding are not taken.
C14_Witness ==
    /\ ev.state = "exception"
    /\ heap = ProgramUndefined.h
    /\ ev.evaluations = <<>>
    /\ ev.trace[Len(ev.trace)].node \notin
           {compile(heap, root)[k].node : k \in DOMAIN compile(heap, root)}
    /\ Len(ev.trace) < Len(compile(heap, root))

\* The programs that call without end.
Endless == {ProgramRecursion.h, ProgramLoop.h}

\* C15: every run ends: a running evaluator gets done or to its exception
\* state; a run takes no more steps and stacks no more evaluations than the
\* limits allow, and a program that would call without end ends with the
\* exception of the step limit or of the function limit.
C15_Terminates ==
    /\ (ev.state = "running") ~> (ev.state \in {"done", "exception"})
    /\ [](Len(ev.trace) <= StepLimit)
    /\ [](Len(ev.evaluations) <= FunctionLimit)
    /\ []((heap \in Endless /\ ev.state \in {"done", "exception"})
            => /\ ev.state = "exception"
               /\ ev.result.exception \in {"StepLimitException",
                                           "FunctionLimitException"})

\* The program that calls itself at once ended at the function limit.
C15_Witness ==
    /\ heap = ProgramRecursion.h
    /\ ev.state = "exception"
    /\ ev.result.exception = "FunctionLimitException"
    /\ Len(ev.trace) < StepLimit

\* What a step of the scheduler and of the streams may do: a re-evaluation
\* is one, of a dirty program, at a tick; a produce appends its value to the
\* history, which nothing else changes.
OneRunPerTick ==
    /\ scheduler'.runs \in {scheduler.runs, scheduler.runs + 1}
    /\ scheduler'.runs = scheduler.runs + 1
           => /\ scheduler'.ticks = scheduler.ticks + 1
              /\ scheduler.dirty /\ ~scheduler'.dirty
              /\ ev' = start(heap, root)
ProduceAppends ==
    IF scheduler'.pending = scheduler.pending + 1
    THEN /\ call'.op = "produce"
         /\ streams' = [streams EXCEPT ![call'.stream] =
                           Append(@, call'.value)]
         /\ scheduler'.dirty
    ELSE streams' = streams

\* Whether the step the evaluator is at reads the stream s.
ReadsStream ==
    /\ CurrentStep.step = "Finish"
    /\ heap[CurrentStep.node].kind = "Reference"
    /\ heap[heap[CurrentStep.node].name].text = "s"

\* C16: however produces and ticks interleave, a tick runs at most one
\* re-evaluation and there are never more re-evaluations than ticks; a read
\* of the stream sees the latest value produced and none of the values
\* before it; every value produced is appended to the history.
C16_OneRunPerTick ==
    /\ [][OneRunPerTick /\ ProduceAppends]_vars
    /\ [][(Stepped /\ ReadsStream)
            => Head(ev'.values) =
                   IF streams.s = <<>> THEN NoneValue
                   ELSE NumberValue(streams.s[Len(streams.s)])]_vars
    /\ [](scheduler.runs <= scheduler.ticks)
    /\ [](scheduler.dirty <=> scheduler.pending > 0)

\* Three values were produced before one tick; the one re-evaluation read
\* the last of them.
C16_Witness ==
    /\ heap = ProgramReaction.h
    /\ scheduler.coalesced = MaxProduces
    /\ scheduler.runs = 1
    /\ streams.s = <<1, 1, 2>>
    /\ ev.state = "running"
    /\ ev.values = <<NumberValue(2)>>

\* C17: a re-evaluation leaves the histories of the streams as they are;
\* the program of s and Previous(s), evaluated after the last produce, is the
\* set of the latest value and of the value before it: of 2 and 1 after 1
\* and 2 were produced.
C17_PreviousAndCurrent ==
    /\ [][(scheduler'.runs # scheduler.runs
                \/ (ev' # ev /\ ev' = start(heap, root)))
            => streams' = streams]_vars
    /\ []((heap = ProgramReaction.h /\ ev.state = "done" /\ ~scheduler.dirty)
            => LET history == streams.s
                   n == Len(history)
               IN  /\ ev.result.type = "Set"
                   /\ Len(ev.result.values) = 2
                   /\ ev.result.values[1] =
                          IF n >= 1 THEN NumberValue(history[n])
                          ELSE NoneValue
                   /\ ev.result.values[2] =
                          IF n >= 2 THEN NumberValue(history[n - 1])
                          ELSE NoneValue
                   /\ history = <<1, 2>>
                          => ev.result.values =
                                 <<NumberValue(2), NumberValue(1)>>)

\* 1 and 2 were produced, and the re-evaluation after that is done.
C17_Witness ==
    /\ heap = ProgramReaction.h
    /\ streams.s = <<1, 2>>
    /\ scheduler.runs >= 1
    /\ ~scheduler.dirty
    /\ ev.state = "done"
    /\ ev.result = SetValue(root, <<NumberValue(2), NumberValue(1)>>)

------------------------------------------------------------------------------
(* Conflicts *)

\* All sequences over S of length at most n.
SeqsUpTo(S, n) == UNION {[1..k -> S] : k \in 0..n}

RECURSIVE Concat(_)
\* The concatenation of a sequence of sequences.
Concat(ss) == IF ss = <<>> THEN <<>> ELSE Head(ss) \o Concat(Tail(ss))

\* What the analyses of conflicts start from, their input aside: no program
\* is edited or evaluated, nothing is computed yet.
NoProgram ==
    /\ heap = <<>>
    /\ root = None
    /\ ret = <<>>
    /\ edits = 0
    /\ ev = Idle
    /\ streams = NoStreams
    /\ scheduler = NoTicks

------------------------------------------------------------------------------
(* A call that misses an input *)

\* How many inputs a function takes.
MaxInputs == 3

\* The node of a call, of its function expression, of its last token and of
\* the definition it calls; a definition's i-th input bind is node
\* BindNode + i.
EvaluateNode == 1
FunNode == 2
LastNode == 3
DefinitionNode == 4
BindNode == 10

\* The input binds of a definition: each with or without a default value.
InputLists ==
    {[i \in DOMAIN d |-> [id |-> BindNode + i, hasDefault |-> d[i]]] :
        d \in SeqsUpTo(BOOLEAN, MaxInputs)}

\* new MissingInput(func, theCall, last, expected)
NewMissingInput(func, theCall, last, expected) ==
    [kind |-> "MissingInput", func |-> func, evaluate |-> theCall,
     last |-> last, input |-> expected]

\* A conflict that points at the call itself.
MissingInput_getConflictingNodes_call(c) ==
    [primary |-> c.evaluate.id, secondary |-> c.input.id]

\* MissingInput.getConflictingNodes: the nodes of primary and secondary.
MissingInput_getConflictingNodes(c) ==
    [primary |-> c.evaluate.fun, secondary |-> c.input.id]

\* The inputs of func that the call gives no value and that have no default.
Omitted(func, theCall) ==
    {i \in DOMAIN func.inputs :
        i > theCall.given /\ ~func.inputs[i].hasDefault}

\* The conflicts of a call: one MissingInput, for the first required input
\* the call omits.
Evaluate_computeConflicts(func, theCall) ==
    IF Omitted(func, theCall) = {} THEN <<>>
    ELSE LET i == CHOOSE i \in Omitted(func, theCall) :
                      \A j \in Omitted(func, theCall) : i <= j
         IN  <<NewMissingInput(func, theCall, theCall.last,
                               func.inputs[i])>>

\* A call of some definition, giving the first few of its inputs.
InitMissingInput ==
    /\ NoProgram
    /\ \E kind \in {"FunctionDefinition", "StructureDefinition",
                     "StreamDefinition"} :
       \E inputs \in InputLists :
       \E given \in 0..Len(inputs) :
           call = [op |-> "input",
                   func |-> [id |-> DefinitionNode, kind |-> kind,
                             inputs |-> inputs],
                   evaluate |-> [id |-> EvaluateNode, fun |-> FunNode,
                                 last |-> LastNode, given |-> given]]

\* The conflicts of the call, and the nodes they point at.
CheckEvaluate ==
    /\ call.op = "input"
    /\ call' = [call EXCEPT !.op = "Evaluate.computeConflicts"]
    /\ LET conflicts == Evaluate_computeConflicts(call.func, call.evaluate)
       IN  ret' = [conflicts |-> conflicts,
                   nodes |-> [k \in DOMAIN conflicts |->
                       MissingInput_getConflictingNodes(conflicts[k])]]
    /\ UNCHANGED <<heap, root, edits, ev, streams, scheduler>>

NextMissingInput == CheckEvaluate

SpecMissingInput == InitMissingInput /\ [][NextMissingInput]_vars

\* The state after the conflicts of a call that omits a required input.
OmitsRequired ==
    /\ call.op = "Evaluate.computeConflicts"
    /\ Omitted(call.func, call.evaluate) # {}

\* C7 as stated: the one MissingInput conflict of a call that omits a
\* required input has the call as its primary node and the missing Bind as
\* its secondary node.
C7_PrimaryIsCall ==
    OmitsRequired =>
        /\ Len(ret.conflicts) = 1
        /\ ret.nodes[1].primary = call.evaluate.id
        /\ ret.nodes[1].secondary = ret.conflicts[1].input.id

\* C7, amended: a call that omits a required input without default has
\* exactly one MissingInput conflict; the conflict holds the call and a Bind
\* the call omits; its primary node is the function expression of the call
\* (theCall.fun), not the call, and its secondary node is that Bind.
C7_MissingInput ==
    OmitsRequired =>
        /\ Len(ret.conflicts) = 1
        /\ ret.conflicts[1].kind = "MissingInput"
        /\ ret.conflicts[1].evaluate = call.evaluate
        /\ ret.conflicts[1].func = call.func
        /\ \E i \in Omitted(call.func, call.evaluate) :
               /\ ret.conflicts[1].input = call.func.inputs[i]
               /\ ret.nodes[1].secondary = call.func.inputs[i].id
        /\ ret.nodes[1].primary = call.evaluate.fun
        /\ ret.nodes[1].primary # call.evaluate.id

\* A call that gives the first of three inputs and omits a required one
\* that follows an input with a default.
C7_Witness ==
    /\ OmitsRequired
    /\ call.evaluate.given = 1
    /\ Len(call.func.inputs) = 3
    /\ call.func.inputs[2].hasDefault
    /\ ret.nodes[1].secondary = BindNode + 3

------------------------------------------------------------------------------
(* A conversion out of place *)

\* How many ancestors a conversion definition has.
MaxDepth == 3

\* The kinds of the ancestors of a conversion definition; the kinds that
\* are binding scopes.
AncestorKinds ==
    {"Block", "StructureDefinition", "FunctionDefinition", "Evaluate"}
BindingScopeKinds == {"Block", "StructureDefinition", "FunctionDefinition"}

\* Node.getBindingScope of a node with the given ancestors (the parent
\* first): the place of the nearest ancestor that is a binding scope, None
\* when there is none.
getBindingScope(ancestors) ==
    LET scopes == {i \in DOMAIN ancestors : ancestors[i] \in BindingScopeKinds}
    IN  IF scopes = {} THEN None
        ELSE CHOOSE i \in scopes : \A j \in scopes : i <= j

\* A check that takes a definition outside the program for a misplaced one.
ConversionDefinition_computeConflicts_native(context) ==
    LET enclosure == IF context.known
                     THEN getBindingScope(context.ancestors) ELSE None
    IN  IF enclosure = None \/ context.ancestors[enclosure] # "Block"
        THEN <<[kind |-> "MisplacedConversion"]>>
        ELSE <<>>

\* ConversionDefinition.computeConflicts: context.known is whether
\* context.get(this) is defined.
ConversionDefinition_computeConflicts(context) ==
    LET enclosure == IF context.known
                     THEN getBindingScope(context.ancestors) ELSE None
    IN  IF enclosure # None /\ context.ancestors[enclosure] # "Block"
        THEN <<[kind |-> "MisplacedConversion"]>>
        ELSE <<>>

\* A conversion definition somewhere in a program, or outside it.
InitConversion ==
    /\ NoProgram
    /\ \E known \in BOOLEAN :
       \E ancestors \in SeqsUpTo(AncestorKinds, MaxDepth) :
           call = [op |-> "input",
                   context |-> [known |-> known, ancestors |-> ancestors]]

\* The conflicts of the conversion definition.
CheckConversion ==
    /\ call.op = "input"
    /\ call' = [call EXCEPT !.op = "ConversionDefinition.computeConflicts"]
    /\ ret' = ConversionDefinition_computeConflicts(call.context)
    /\ UNCHANGED <<heap, root, edits, ev, streams, scheduler>>

NextConversion == CheckConversion

SpecConversion == InitConversion /\ [][NextConversion]_vars

\* Whether the binding scope of the conversion is a structure definition:
\* the definition itself, or the block that is its body.
InStructureDefinition(ancestors) ==
    LET scope == getBindingScope(ancestors)
    IN  /\ scope # None
        /\ \/ ancestors[scope] = "StructureDefinition"
           \/ /\ ancestors[scope] = "Block"
              /\ scope < Len(ancestors)
              /\ ancestors[scope + 1] = "StructureDefinition"

\* C8: a conversion definition of the program has a MisplacedConversion
\* conflict when its binding scope is not a structure definition, and none
\* when it is.
C8_OnlyInStructures ==
    (call.op = "ConversionDefinition.computeConflicts" /\ call.context.known
        /\ getBindingScope(call.context.ancestors) # None)
        => (ret # <<>> <=> ~InStructureDefinition(call.context.ancestors))

------------------------------------------------------------------------------
(* Names that differ by case *)

\* How long a name is, how many definitions a scope has and how many
\* aliases a definition.
MaxNameLen == 2
MaxBinds == 1
MaxAliases == 2

\* The characters of names: a letter in both cases and a digit, which has
\* no case.
Chars == {"f", "F", "1"}

\* String.toLocaleUpperCase and toLocaleLowerCase
toLocaleUpperCase(name) ==
    [i \in DOMAIN name |-> IF name[i] = "f" THEN "F" ELSE name[i]]
toLocaleLowerCase(name) ==
    [i \in DOMAIN name |-> IF name[i] = "F" THEN "f" ELSE name[i]]

Names == SeqsUpTo(Chars, MaxNameLen) \ {<<>>}

\* The definitions a scope may hold: a Bind or a function, with its aliases.
Definitions ==
    {[kind |-> k, aliases |-> a] :
        k \in {"Bind", "FunctionDefinition"},
        a \in SeqsUpTo(Names, MaxAliases) \ {<<>>}}

\* Node.getDefinitionOfName: the place of the first definition of the
\* enclosing scopes with an alias of exactly this name, None without one.
getDefinitionOfName(enclosure, name) ==
    LET found == {i \in DOMAIN enclosure :
                     \E k \in DOMAIN enclosure[i].aliases :
                         enclosure[i].aliases[k] = name}
    IN  IF found = {} THEN None
        ELSE CHOOSE i \in found : \A j \in found : i <= j

NoConflict == [kind |-> "undefined"]

\* getCaseCollision for an enclosure that is defined.
getCaseCollision(name, enclosure) ==
    LET upper == toLocaleUpperCase(name)
        lower == toLocaleLowerCase(name)
    IN  IF upper = lower THEN NoConflict
        ELSE LET otherCase == IF name = upper THEN lower ELSE upper
                 otherBind == getDefinitionOfName(enclosure, otherCase)
             IN  IF otherBind # None /\ enclosure[otherBind].kind = "Bind"
                 THEN LET aliases == enclosure[otherBind].aliases
                          found == {k \in DOMAIN aliases :
                                       aliases[k] = otherCase}
                      IN  IF found # {}
                          THEN [kind |-> "CaseSensitive", name |-> name,
                                bind |-> otherBind,
                                alias |-> CHOOSE k \in found :
                                              \A j \in found : k <= j]
                          ELSE NoConflict
                 ELSE NoConflict

\* A name and the definitions of its enclosing scopes.
InitCase ==
    /\ NoProgram
    /\ \E name \in Names :
       \E enclosure \in SeqsUpTo(Definitions, MaxBinds) :
           call = [op |-> "input", name |-> name, enclosure |-> enclosure]

\* The case collision of the name.
CheckCase ==
    /\ call.op = "input"
    /\ call' = [call EXCEPT !.op = "getCaseCollision"]
    /\ ret' = getCaseCollision(call.name, call.enclosure)
    /\ UNCHANGED <<heap, root, edits, ev, streams, scheduler>>

NextCase == CheckCase

SpecCase == InitCase /\ [][NextCase]_vars

\* Whether two names differ, and by the case of letters only.
DifferByCase(a, b) == a # b /\ toLocaleLowerCase(a) = toLocaleLowerCase(b)

\* C9: getCaseCollision returns a CaseSensitive conflict whenever the scope
\* defines a Bind with an alias that differs from the name by case only.
C9_CaseCollision ==
    (call.op = "getCaseCollision"
        /\ \E i \in DOMAIN call.enclosure :
               /\ call.enclosure[i].kind = "Bind"
               /\ \E k \in DOMAIN call.enclosure[i].aliases :
                      DifferByCase(call.enclosure[i].aliases[k], call.name))
        => ret.kind = "CaseSensitive"

------------------------------------------------------------------------------
(* Rows of a table *)

\* How many columns a table has and how many cells a row.
MaxColumns == 2
MaxCells == 3

\* The types of columns and cells, and the names of columns and cells.
CellTypes == {"Number", "Text"}
ColumnNames == <<"a", "b", "c">>

\* Type.accepts between the types of columns and cells.
accepts(expected, given) == expected = given

\* The table types: one column or more, of distinct names, each of a type,
\* with or without a default.
TableTypes ==
    {[i \in DOMAIN c |-> [name |-> ColumnNames[i], type |-> c[i].type,
                          hasDefault |-> c[i].hasDefault]] :
        c \in SeqsUpTo([type : CellTypes, hasDefault : BOOLEAN], MaxColumns)
                 \ {<<>>}}

\* The cells: a Bind of a name to a value of a type, or an expression of a
\* type, which has no name.
Cells ==
    [bind : {TRUE}, name : Range(ColumnNames), type : CellTypes]
        \cup [bind : {FALSE}, name : {""}, type : CellTypes]

\* Row.allBinds and Row.allExpressions
allBinds(row) == \A i \in DOMAIN row : row[i].bind
allExpressions(row) == \A i \in DOMAIN row : ~row[i].bind

\* TableType.getColumnNamed: the place of the first column of that name,
\* None without one.
getColumnNamed(tableType, name) ==
    LET found == {i \in DOMAIN tableType : tableType[i].name = name}
    IN  IF found = {} THEN None
        ELSE CHOOSE i \in found : \A j \in found : i <= j

\* No column counts as named.
matchedColumns_none(tableType, row) == {}

\* The columns that the cells of a row of binds name (matchedColumns).
matchedColumns(tableType, row) ==
    {getColumnNamed(tableType, row[i].name) : i \in DOMAIN row} \ {None}

\* An analysis that also looks at the binds of a row that mixes binds and
\* expressions.
analyzeRow_mixed(tableType, row) ==
    IF allBinds(row)
    THEN Concat([i \in DOMAIN row |->
                    LET column == getColumnNamed(tableType, row[i].name)
                    IN  IF column = None
                        THEN <<[kind |-> "UnknownColumn", cell |-> i]>>
                        ELSE IF ~accepts(tableType[column].type, row[i].type)
                        THEN <<[kind |-> "IncompatibleCellType", cell |-> i]>>
                        ELSE <<>>])
         \o Concat([c \in DOMAIN tableType |->
                    IF c \notin matchedColumns(tableType, row)
                           /\ ~tableType[c].hasDefault
                    THEN <<[kind |-> "MissingCell", column |-> c]>>
                    ELSE <<>>])
    ELSE IF allExpressions(row)
    THEN Concat([c \in DOMAIN tableType |->
                    IF c > Len(row)
                    THEN <<[kind |-> "MissingCell", column |-> c]>>
                    ELSE IF ~accepts(tableType[c].type, row[c].type)
                    THEN <<[kind |-> "IncompatibleCellType", cell |-> c]>>
                    ELSE <<>>])
    ELSE <<[kind |-> "InvalidRow"]>>
         \o Concat([i \in DOMAIN row |->
                    IF row[i].bind
                           /\ getColumnNamed(tableType, row[i].name) = None
                    THEN <<[kind |-> "UnknownColumn", cell |-> i]>>
                    ELSE <<>>])

\* analyzeRow: the conflicts in the order the code pushes them; a conflict
\* names the cell or the column it is about by its place.
analyzeRow(tableType, row) ==
    IF allBinds(row)
    THEN Concat([i \in DOMAIN row |->
                    LET column == getColumnNamed(tableType, row[i].name)
                    IN  IF column = None
                        THEN <<[kind |-> "UnknownColumn", cell |-> i]>>
                        ELSE IF ~accepts(tableType[column].type, row[i].type)
                        THEN <<[kind |-> "IncompatibleCellType", cell |-> i]>>
                        ELSE <<>>])
         \o Concat([c \in DOMAIN tableType |->
                    IF c \notin matchedColumns(tableType, row)
                           /\ ~tableType[c].hasDefault
                    THEN <<[kind |-> "MissingCell", column |-> c]>>
                    ELSE <<>>])
    ELSE IF allExpressions(row)
    THEN Concat([c \in DOMAIN tableType |->
                    IF c > Len(row)
                    THEN <<[kind |-> "MissingCell", column |-> c]>>
                    ELSE IF ~accepts(tableType[c].type, row[c].type)
                    THEN <<[kind |-> "IncompatibleCellType", cell |-> c]>>
                    ELSE <<>>])
    ELSE <<[kind |-> "InvalidRow"]>>

\* A table type and a row.
InitRow ==
    /\ NoProgram
    /\ \E tableType \in TableTypes :
       \E row \in SeqsUpTo(Cells, MaxCells) :
           call = [op |-> "input", tableType |-> tableType, row |-> row]

\* The conflicts of the row against the table type.
CheckRow ==
    /\ call.op = "input"
    /\ call' = [call EXCEPT !.op = "analyzeRow"]
    /\ ret' = analyzeRow(call.tableType, call.row)
    /\ UNCHANGED <<heap, root, edits, ev, streams, scheduler>>

NextRow == CheckRow

SpecRow == InitRow /\ [][NextRow]_vars

\* A row of unnamed cells that gives every column exactly one value of a
\* type the column accepts.
WellFormedUnnamed(tableType, row) ==
    /\ allExpressions(row)
    /\ Len(row) = Len(tableType)
    /\ \A i \in DOMAIN row : accepts(tableType[i].type, row[i].type)

\* A row of binds, each naming a column that accepts its value, that names
\* every column without a default.
WellFormedNamed(tableType, row) ==
    /\ allBinds(row)
    /\ \A i \in DOMAIN row :
           \E c \in DOMAIN tableType :
               /\ tableType[c].name = row[i].name
               /\ accepts(tableType[c].type, row[i].type)
    /\ \A c \in DOMAIN tableType :
           tableType[c].hasDefault
               \/ \E i \in DOMAIN row : row[i].name = tableType[c].name

\* C10: analyzeRow returns no conflict only for a well-formed row; any other
\* row, one with cells beyond the table's columns included, has a conflict.
C10_EmptyOnlyIfWellFormed ==
    (call.op = "analyzeRow" /\ ret = <<>>)
        => \/ WellFormedUnnamed(call.tableType, call.row)
           \/ WellFormedNamed(call.tableType, call.row)

\* C21: for a row that is neither all binds nor all expressions analyzeRow
\* returns exactly one conflict, an InvalidRow, and checks no cell: no
\* UnknownColumn, IncompatibleCellType or MissingCell is reported.
C21_InvalidRow ==
    (call.op = "analyzeRow" /\ ~allBinds(call.row)
        /\ ~allExpressions(call.row))
        => ret = <<[kind |-> "InvalidRow"]>>

\* A bind of no column next to an expression of the wrong type, in a row
\* too short for the table: one InvalidRow and nothing else.
C21_Witness ==
    /\ call.op = "analyzeRow"
    /\ Len(call.tableType) = MaxColumns
    /\ Len(call.row) = 2
    /\ call.row[1].bind /\ ~call.row[2].bind
    /\ getColumnNamed(call.tableType, call.row[1].name) = None
    /\ ~call.tableType[1].hasDefault
    /\ ret = <<[kind |-> "InvalidRow"]>>

\* The columns of the MissingCell conflicts, in the order reported.
MissingCells(conflicts) ==
    LET missing == SelectSeq(conflicts, LAMBDA c : c.kind = "MissingCell")
    IN  [k \in DOMAIN missing |-> missing[k].column]

\* Whether s lists the members of S once each.
ListsOnce(s, S) ==
    /\ Range(s) = S
    /\ Len(s) = Cardinality(S)

------------------------------------------------------------------------------
(* Aliases with the same name *)

\* How many aliases are compared.
MaxAliasList == 4

\* The names of the aliases: a letter in both cases and a longer name.
AliasNames == {<<"f">>, <<"F">>, <<"f", "f">>}

\* The aliases: alias.getName() is a name or undefined (named is FALSE).
AliasLists ==
    SeqsUpTo({[named |-> TRUE, name |-> n] : n \in AliasNames}
                 \cup {[named |-> FALSE, name |-> <<>>]}, MaxAliasList)

\* Map.get and Map.set of a map kept as the sequence of its entries, in the
\* order of insertion.
MapHas(map, key) == \E k \in DOMAIN map : map[k].key = key
MapGet(map, key) == map[CHOOSE k \in DOMAIN map : map[k].key = key].value
MapSet(map, key, value) ==
    IF MapHas(map, key)
    THEN [k \in DOMAIN map |->
              IF map[k].key = key THEN [key |-> key, value |-> value]
              ELSE map[k]]
    ELSE Append(map, [key |-> key, value |-> value])

RECURSIVE groupAliases(_, _, _, _)
\* aliases.forEach: the aliases from the i-th on, pushed on the list of
\* their key; an alias is named by its place in the input.
groupAliases(aliases, keyOf, i, map) ==
    IF i > Len(aliases) THEN map
    ELSE IF aliases[i].named
    THEN LET name == keyOf[i]
             duplicates == IF MapHas(map, name) THEN MapGet(map, name)
                           ELSE <<>>
         IN  groupAliases(aliases, keyOf, i + 1,
                          MapSet(map, name, Append(duplicates, i)))
    ELSE groupAliases(aliases, keyOf, i + 1, map)

\* duplicatesByName.forEach: the lists of one alias are deleted.
deleteSingles(map) == SelectSeq(map, LAMBDA e : Len(e.value) # 1)

\* Aliases compared without regard to case.
getDuplicateAliases_caseless(aliases) ==
    LET duplicatesByName ==
            deleteSingles(groupAliases(aliases,
                [i \in DOMAIN aliases |-> toLocaleLowerCase(aliases[i].name)],
                1, <<>>))
    IN  IF Len(duplicatesByName) > 0
        THEN [kind |-> "DuplicateAliases", duplicates |-> duplicatesByName]
        ELSE NoConflict

\* getDuplicateAliases
getDuplicateAliases(aliases) ==
    LET duplicatesByName ==
            deleteSingles(groupAliases(aliases,
                [i \in DOMAIN aliases |-> aliases[i].name], 1, <<>>))
    IN  IF Len(duplicatesByName) > 0
        THEN [kind |-> "DuplicateAliases", duplicates |-> duplicatesByName]
        ELSE NoConflict

\* Some aliases.
InitAliases ==
    /\ NoProgram
    /\ \E aliases \in AliasLists : call = [op |-> "input", aliases |-> aliases]

\* The duplicates among the aliases.
CheckAliases ==
    /\ call.op = "input"
    /\ call' = [call EXCEPT !.op = "getDuplicateAliases"]
    /\ ret' = getDuplicateAliases(call.aliases)
    /\ UNCHANGED <<heap, root, edits, ev, streams, scheduler>>

NextAliases == CheckAliases

SpecAliases == InitAliases /\ [][NextAliases]_vars

\* The places of the aliases with this name, and the names that two or more
\* aliases have.
Named(aliases, name) ==
    {i \in DOMAIN aliases : aliases[i].named /\ aliases[i].name = name}
Repeated(aliases) ==
    {n \in AliasNames : Cardinality(Named(aliases, n)) >= 2}

\* Whether s lists exactly the members of S, in increasing order.
ListsInOrder(s, S) ==
    /\ Range(s) = S
    /\ \A i, j \in DOMAIN s : i < j => s[i] < s[j]

\* C20: getDuplicateAliases returns a conflict if and only if some name is
\* the name of two or more aliases, compared exactly; the map of the conflict
\* has exactly the names that occur twice or more, each once, with all the
\* aliases of that name in the order of the input. Aliases without a name
\* and names that differ by case only are no duplicates.
C20_DuplicateAliases ==
    call.op = "getDuplicateAliases" =>
        LET repeated == Repeated(call.aliases)
        IN  /\ ret.kind = "DuplicateAliases" <=> repeated # {}
            /\ ret.kind # "DuplicateAliases" => ret = NoConflict
            /\ ret.kind = "DuplicateAliases" =>
                 LET map == ret.duplicates
                 IN  /\ {map[k].key : k \in DOMAIN map} = repeated
                     /\ \A k, l \in DOMAIN map :
                            map[k].key = map[l].key => k = l
                     /\ \A k \in DOMAIN map :
                            ListsInOrder(map[k].value,
                                         Named(call.aliases, map[k].key))

\* Duplicates are found among aliases that also hold a name in the other
\* case and an alias without a name.
C20_Witness ==
    /\ call.op = "getDuplicateAliases"
    /\ ret.kind = "DuplicateAliases"
    /\ Len(ret.duplicates) = 1
    /\ \E i \in DOMAIN call.aliases : ~call.aliases[i].named
    /\ \E i, j \in DOMAIN call.aliases :
           /\ call.aliases[i].named /\ call.aliases[j].named
           /\ DifferByCase(call.aliases[i].name, call.aliases[j].name)

------------------------------------------------------------------------------
(* The inputs of a definition *)

\* How many inputs a definition has.
MaxParameters == 3

\* An input is a Bind, with or without a default value, of variable length
\* or not, with its aliases, or it is unparsable.
Inputs ==
    {[kind |-> "Bind", hasDefault |-> d, isVariableLength |-> r,
      aliases |-> <<[named |-> TRUE, name |-> n]>>] :
        d \in BOOLEAN, r \in BOOLEAN, n \in {<<"f">>, <<"F">>}}
        \cup {[kind |-> "Unparsable"]}

\* inputs.filter(i => i instanceof Bind): the places of the binds, in order.
bindsOf(inputs) ==
    SelectSeq([i \in DOMAIN inputs |-> i],
              LAMBDA i : inputs[i].kind = "Bind")

RECURSIVE bindsForEach(_, _, _, _, _)
\* binds.forEach of requiredBindAfterOptional, from the k-th bind on: the
\* first bind without a value after a bind with one, None without one.
bindsForEach(inputs, binds, k, foundOptional, requiredAfterOptional) ==
    IF k > Len(binds) THEN requiredAfterOptional
    ELSE IF inputs[binds[k]].hasDefault
    THEN bindsForEach(inputs, binds, k + 1, TRUE, requiredAfterOptional)
    ELSE IF foundOptional /\ requiredAfterOptional = None
    THEN bindsForEach(inputs, binds, k + 1, foundOptional, binds[k])
    ELSE bindsForEach(inputs, binds, k + 1, foundOptional,
                      requiredAfterOptional)

\* A check that does not look for unparsable inputs.
requiredBindAfterOptional_anyway(inputs) ==
    LET binds == bindsOf(inputs)
        requiredAfterOptional == bindsForEach(inputs, binds, 1, FALSE, None)
    IN  IF requiredAfterOptional # None
        THEN [kind |-> "RequiredAfterOptional", bind |-> requiredAfterOptional]
        ELSE NoConflict

\* requiredBindAfterOptional
requiredBindAfterOptional(inputs) ==
    LET binds == bindsOf(inputs)
        requiredAfterOptional == bindsForEach(inputs, binds, 1, FALSE, None)
    IN  IF Len(inputs) = Len(binds) /\ requiredAfterOptional # None
        THEN [kind |-> "RequiredAfterOptional", bind |-> requiredAfterOptional]
        ELSE NoConflict

\* inputs.find(i => i instanceof Bind && i.isVariableLength()): the place of
\* the first such input, None without one.
findRest(inputs) ==
    LET found == {i \in DOMAIN inputs :
                     inputs[i].kind = "Bind" /\ inputs[i].isVariableLength}
    IN  IF found = {} THEN None
        ELSE CHOOSE i \in found : \A j \in found : i <= j

\* A check of the last input only.
restIsNotLast_last(inputs) ==
    LET rest == findRest(inputs)
    IN  IF rest # None /\ rest = Len(inputs) - 1
        THEN [kind |-> "VariableLengthArgumentMustBeLast", bind |-> rest]
        ELSE NoConflict

\* restIsNotLast: inputs.indexOf(rest) is the place of rest, counted from 0.
restIsNotLast(inputs) ==
    LET rest == findRest(inputs)
    IN  IF rest # None /\ rest - 1 # Len(inputs) - 1
        THEN [kind |-> "VariableLengthArgumentMustBeLast", bind |-> rest]
        ELSE NoConflict

\* getEvaluationInputConflicts
getEvaluationInputConflicts(inputs) ==
    LET duplicateInputs ==
            getDuplicateAliases(Concat(
                [i \in DOMAIN inputs |->
                    IF inputs[i].kind = "Bind" THEN inputs[i].aliases
                    ELSE <<>>]))
        requiredAfterOptional == requiredBindAfterOptional(inputs)
        restIsntLast == restIsNotLast(inputs)
    IN  (IF duplicateInputs # NoConflict THEN <<duplicateInputs>> ELSE <<>>)
        \o (IF requiredAfterOptional # NoConflict
            THEN <<requiredAfterOptional>> ELSE <<>>)
        \o (IF restIsntLast # NoConflict THEN <<restIsntLast>> ELSE <<>>)

\* The inputs of some definition.
InitInputs ==
    /\ NoProgram
    /\ \E inputs \in SeqsUpTo(Inputs, MaxParameters) :
           call = [op |-> "input", inputs |-> inputs]

\* The conflicts of the inputs.
CheckInputs ==
    /\ call.op = "input"
    /\ call' = [call EXCEPT !.op = "getEvaluationInputConflicts"]
    /\ ret' = getEvaluationInputConflicts(call.inputs)
    /\ UNCHANGED <<heap, root, edits, ev, streams, scheduler>>

\* Whether a variable-length input is not the last.
CheckRest ==
    /\ call.op = "input"
    /\ call' = [call EXCEPT !.op = "restIsNotLast"]
    /\ ret' = restIsNotLast(call.inputs)
    /\ UNCHANGED <<heap, root, edits, ev, streams, scheduler>>

NextInputs == CheckInputs \/ CheckRest

SpecInputs == InitInputs /\ [][NextInputs]_vars

\* The binds without a default value that come after a bind with one.
RequiredAfterOptional(inputs) ==
    {j \in DOMAIN inputs :
        /\ inputs[j].kind = "Bind" /\ ~inputs[j].hasDefault
        /\ \E i \in 1..(j - 1) :
               inputs[i].kind = "Bind" /\ inputs[i].hasDefault}

\* Whether some input is unparsable.
HasUnparsable(inputs) == \E i \in DOMAIN inputs : inputs[i].kind = "Unparsable"

\* The conflicts of this kind among the conflicts.
OfKind(conflicts, kind) == SelectSeq(conflicts, LAMBDA c : c.kind = kind)

\* C11 as claimed: the conflicts of the inputs hold a RequiredAfterOptional
\* whenever a bind without a default comes after a bind with one, unparsable
\* inputs in the list or not.
C11_RequiredAfterOptional ==
    (call.op = "getEvaluationInputConflicts"
        /\ RequiredAfterOptional(call.inputs) # {})
        => OfKind(ret, "RequiredAfterOptional") # <<>>

\* C11: the conflicts of a list of inputs that are all binds hold exactly
\* one RequiredAfterOptional, of the first bind without a default after a
\* bind with one, when there is such a bind; they hold none when there is no
\* such bind and none when some input of the list is unparsable.
C11_RequiredAfterOptionalAllBinds ==
    call.op = "getEvaluationInputConflicts" =>
        LET late == RequiredAfterOptional(call.inputs)
            found == OfKind(ret, "RequiredAfterOptional")
        IN  IF late # {} /\ ~HasUnparsable(call.inputs)
            THEN /\ Len(found) = 1
                 /\ found[1].bind \in late
                 /\ \A j \in late : found[1].bind <= j
            ELSE found = <<>>

\* A required input after an optional one is reported, next to other
\* conflicts of the list.
C11_Witness ==
    /\ call.op = "getEvaluationInputConflicts"
    /\ Len(call.inputs) = MaxParameters
    /\ Cardinality(RequiredAfterOptional(call.inputs)) >= 2
    /\ OfKind(ret, "RequiredAfterOptional") # <<>>
    /\ Len(ret) >= 2

\* The variable-length binds of the inputs.
VariableLength(inputs) ==
    {i \in DOMAIN inputs :
        inputs[i].kind = "Bind" /\ inputs[i].isVariableLength}

\* C12: restIsNotLast returns a VariableLengthArgumentMustBeLast if and only
\* if some variable-length bind is at another place than the last of the
\* list, unparsable inputs counted; the conflict is of the first
\* variable-length bind; without a variable-length bind nothing is returned.
C12_RestIsLast ==
    call.op = "restIsNotLast" =>
        LET rests == VariableLength(call.inputs)
        IN  /\ ret.kind = "VariableLengthArgumentMustBeLast"
                <=> \E i \in rests : i # Len(call.inputs)
            /\ ret.kind = "VariableLengthArgumentMustBeLast"
                => /\ ret.bind \in rests
                   /\ \A i \in rests : ret.bind <= i
            /\ ret.kind # "VariableLengthArgumentMustBeLast"
                => ret = NoConflict
            /\ rests = {} => ret = NoConflict

\* Two variable-length binds, the second the last of the list and an
\* unparsable input between them: the first is reported.
C12_Witness ==
    /\ call.op = "restIsNotLast"
    /\ VariableLength(call.inputs) = {1, Len(call.inputs)}
    /\ HasUnparsable(call.inputs)
    /\ ret.kind = "VariableLengthArgumentMustBeLast"
    /\ ret.bind = 1

------------------------------------------------------------------------------
(* The type of a select *)

\* How many cells the row of a select has.
MaxSelectCells == 2

\* undefined, and what a condition makes of a value: undefined is falsy, an
\* object is truthy.
Undefined == [kind |-> "undefined"]
Truthy(value) == value # Undefined

\* Array.find(t => t === wanted): the first element that is the wanted
\* one, undefined without one.
find(array, wanted) ==
    LET found == {i \in DOMAIN array : array[i] = wanted}
    IN  IF found = {} THEN Undefined
        ELSE array[CHOOSE i \in found : \A j \in found : i <= j]

\* The types of the table expression of a select: a table type or not.
TableExpressionTypes ==
    {[kind |-> "TableType", columns |-> t] : t \in TableTypes}
        \cup {[kind |-> "SetType"]}

\* The expressions of the cells of the row of a select: a Name with its
\* text, or another expression.
SelectCells ==
    [isName : {TRUE}, text : Range(ColumnNames)]
        \cup [isName : {FALSE}, text : {""}]

\* The column types of the cells (columnTypes): the column a cell names,
\* undefined for a cell that names none.
columnTypesOf(tableType, cells) ==
    [i \in DOMAIN cells |->
        LET column == IF cells[i].isName
                      THEN getColumnNamed(tableType.columns, cells[i].text)
                      ELSE None
        IN  IF column = None THEN Undefined ELSE tableType.columns[column]]

\* Select.getType: tableType is the type of this.table, cells the
\* expressions of this.row.cells.
Select_getType(tableType, cells) ==
    IF tableType.kind # "TableType" THEN [kind |-> "UnknownType"]
    ELSE LET columnTypes == columnTypesOf(tableType, cells)
         IN  IF Truthy(find(columnTypes, Undefined))
             THEN [kind |-> "UnknownType"]
             ELSE [kind |-> "TableType", columns |-> columnTypes]

\* A select: the type of its table and the cells of its row.
InitSelectType ==
    /\ NoProgram
    /\ \E tableType \in TableExpressionTypes :
       \E cells \in SeqsUpTo(SelectCells, MaxSelectCells) :
           call = [op |-> "input", tableType |-> tableType, cells |-> cells]

\* The type of the select.
CheckSelectType ==
    /\ call.op = "input"
    /\ call' = [call EXCEPT !.op = "Select.getType"]
    /\ ret' = Select_getType(call.tableType, call.cells)
    /\ UNCHANGED <<heap, root, edits, ev, streams, scheduler>>

NextSelectType == CheckSelectType

SpecSelectType == InitSelectType /\ [][NextSelectType]_vars

\* Whether the cell names a column of the table type.
NamesColumn(tableType, cell) ==
    /\ cell.isName
    /\ \E c \in DOMAIN tableType.columns :
           tableType.columns[c].name = cell.text

\* C18: Select.getType is an UnknownType whenever the type of the table is
\* no table type or some cell of the row names no column of it; otherwise it
\* is the table type of the columns the cells name, in the order of the
\* cells.
C18_SelectType ==
    call.op = "Select.getType" =>
        IF \/ call.tableType.kind # "TableType"
           \/ \E i \in DOMAIN call.cells :
                  ~NamesColumn(call.tableType, call.cells[i])
        THEN ret = [kind |-> "UnknownType"]
        ELSE /\ ret.kind = "TableType"
             /\ Len(ret.columns) = Len(call.cells)
             /\ \A i \in DOMAIN call.cells :
                    /\ ret.columns[i] \in Range(call.tableType.columns)
                    /\ ret.columns[i].name = call.cells[i].text

------------------------------------------------------------------------------
(* The conflicts of a select *)

\* The query of a select: unparsable, or an expression of a type.
Queries ==
    {[kind |-> "Unparsable"]}
        \cup {[kind |-> "Expression", type |-> t] :
                 t \in {"BooleanType", "TextType"}}

\* The first forEach of Select.getConflicts: the cells that are no names.
expectedSelectNames(cells) ==
    Concat([i \in DOMAIN cells |->
               IF ~cells[i].isName
               THEN <<[kind |-> "ExpectedSelectName", cell |-> i]>>
               ELSE <<>>])

\* The second forEach of Select.getConflicts: the cells without a cellName
\* that is a column of the table type.
unknownColumns(tableType, cells) ==
    Concat([i \in DOMAIN cells |->
               LET cellName == IF cells[i].isName
                               THEN [kind |-> "Name", text |-> cells[i].text]
                               ELSE Undefined
               IN  IF ~(/\ cellName # Undefined
                        /\ getColumnNamed(tableType.columns,
                                          cellName.text) # None)
                   THEN <<[kind |-> "UnknownColumn", cell |-> i]>>
                   ELSE <<>>])

\* A check that takes an unparsable query for a query that is not boolean.
Select_getConflicts_unparsable(tableType, cells, query) ==
    (IF tableType.kind # "TableType" THEN <<[kind |-> "NotATable"]>>
     ELSE <<>>)
        \o expectedSelectNames(cells)
        \o (IF tableType.kind = "TableType"
            THEN unknownColumns(tableType, cells) ELSE <<>>)
        \o (IF query.kind = "Unparsable" \/ query.type # "BooleanType"
            THEN <<[kind |-> "NonBooleanQuery"]>> ELSE <<>>)

\* Select.getConflicts: tableType is the type of this.table, cells the
\* expressions of this.row.cells, query this.query with its type.
Select_getConflicts(tableType, cells, query) ==
    (IF tableType.kind # "TableType" THEN <<[kind |-> "NotATable"]>>
     ELSE <<>>)
        \o expectedSelectNames(cells)
        \o (IF tableType.kind = "TableType"
            THEN unknownColumns(tableType, cells) ELSE <<>>)
        \o (IF query.kind = "Expression" /\ query.type # "BooleanType"
            THEN <<[kind |-> "NonBooleanQuery"]>> ELSE <<>>)

\* A select: the type of its table, the cells of its row and its query.
InitSelectConflicts ==
    /\ NoProgram
    /\ \E tableType \in TableExpressionTypes :
       \E cells \in SeqsUpTo(SelectCells, MaxSelectCells) :
       \E query \in Queries :
           call = [op |-> "input", tableType |-> tableType, cells |-> cells,
                   query |-> query]

\* The conflicts of the select.
CheckSelectConflicts ==
    /\ call.op = "input"
    /\ call' = [call EXCEPT !.op = "Select.getConflicts"]
    /\ ret' = Select_getConflicts(call.tableType, call.cells, call.query)
    /\ UNCHANGED <<heap, root, edits, ev, streams, scheduler>>

NextSelectConflicts == CheckSelectConflicts

SpecSelectConflicts == InitSelectConflicts /\ [][NextSelectConflicts]_vars

\* C23: the conflicts of a select hold a NonBooleanQuery if and only if the
\* query is an expression whose type is not BooleanType; none for an
\* unparsable query, and never more than one.
C23_NonBooleanQuery ==
    call.op = "Select.getConflicts" =>
        Len(OfKind(ret, "NonBooleanQuery")) =
            IF call.query.kind = "Expression"
                   /\ call.query.type # "BooleanType"
            THEN 1 ELSE 0

\* A query of type text is reported once, after the conflicts of the table
\* and of the cells.
C23_Witness ==
    /\ call.op = "Select.getConflicts"
    /\ call.query = [kind |-> "Expression", type |-> "TextType"]
    /\ Len(ret) >= 3
    /\ ret[Len(ret)] = [kind |-> "NonBooleanQuery"]
    /\ Len(OfKind(ret, "NonBooleanQuery")) = 1

\* The cells that a conflict of this kind is about, in the order reported.
CellsOf(conflicts, kind) ==
    LET found == OfKind(conflicts, kind)
    IN  [k \in DOMAIN found |-> found[k].cell]

------------------------------------------------------------------------------
(* The definition of a name in a select *)

\* How many scopes enclose a select.
MaxScopes == 2

\* The table types whose columns hold a Bind or what did not parse as one.
ColumnBinds ==
    {[i \in DOMAIN b |-> [name |-> ColumnNames[i], bind |-> b[i]]] :
        b \in SeqsUpTo({"Bind", "Unparsable"}, MaxColumns)}
BoundTableTypes ==
    {[kind |-> "TableType", columns |-> c] : c \in ColumnBinds}
        \cup {[kind |-> "SetType"]}

\* context.program.getBindingEnclosureOf(this): undefined, or the node that
\* encloses the select, with the names that it and the scopes around it
\* define, the nearest scope first.
Enclosures ==
    {Undefined}
        \cup {[kind |-> "Node", scopes |-> s] :
                 s \in SeqsUpTo(SUBSET {"a", "b"}, MaxScopes) \ {<<>>}}

\* getDefinition of the enclosure: the definition of the name in the
\* nearest scope that defines it, undefined without one.
getDefinition(enclosure, name) ==
    LET found == {i \in DOMAIN enclosure.scopes : name \in enclosure.scopes[i]}
    IN  IF found = {} THEN Undefined
        ELSE [kind |-> "Definition", name |-> name,
              scope |-> CHOOSE i \in found : \A j \in found : i <= j]

\* A lookup that asks the enclosure first.
Select_getDefinition_enclosure(type, enclosure, name) ==
    IF enclosure # Undefined /\ getDefinition(enclosure, name) # Undefined
    THEN getDefinition(enclosure, name)
    ELSE LET column == IF type.kind = "TableType"
                       THEN getColumnNamed(type.columns, name) ELSE None
         IN  IF column # None /\ type.columns[column].bind = "Bind"
             THEN [kind |-> "Bind", column |-> column]
             ELSE Undefined

\* Select.getDefinition: type is the type of this.table, enclosure the
\* binding enclosure of the select.
Select_getDefinition(type, enclosure, name) ==
    LET column == IF type.kind = "TableType"
                  THEN getColumnNamed(type.columns, name) ELSE None
    IN  IF column # None /\ type.columns[column].bind = "Bind"
        THEN [kind |-> "Bind", column |-> column]
        ELSE IF enclosure = Undefined THEN Undefined
        ELSE getDefinition(enclosure, name)

\* Select.isBindingEnclosureOfChild
Select_isBindingEnclosureOfChild(this, child) ==
    child = this.query \/ child = this.row

\* A select with its children, the type of its table and its enclosure, and
\* a name to look up.
InitSelectDefinition ==
    /\ NoProgram
    /\ \E type \in BoundTableTypes :
       \E enclosure \in Enclosures :
       \E name \in Range(ColumnNames) :
           call = [op |-> "input",
                   this |-> [table |-> 1, select |-> 2, row |-> 3,
                             query |-> 4],
                   type |-> type, enclosure |-> enclosure, name |-> name]

\* The definition of the name, seen from the select.
CheckSelectDefinition ==
    /\ call.op = "input"
    /\ call' = [call EXCEPT !.op = "Select.getDefinition"]
    /\ ret' = Select_getDefinition(call.type, call.enclosure, call.name)
    /\ UNCHANGED <<heap, root, edits, ev, streams, scheduler>>

\* Whether the select is the binding enclosure of one of its children, or of
\* a node that is none of them.
CheckSelectEnclosure ==
    /\ call.op = "input"
    /\ \E child \in 1..5 :
           /\ call' = [op |-> "Select.isBindingEnclosureOfChild",
                       this |-> call.this, child |-> child]
           /\ ret' = Select_isBindingEnclosureOfChild(call.this, child)
    /\ UNCHANGED <<heap, root, edits, ev, streams, scheduler>>

NextSelectDefinition == CheckSelectDefinition \/ CheckSelectEnclosure

SpecSelectDefinition == InitSelectDefinition /\ [][NextSelectDefinition]_vars

\* The columns of the table type that have this name and hold a Bind.
BindColumns(type, name) ==
    IF type.kind # "TableType" THEN {}
    ELSE {c \in DOMAIN type.columns :
             type.columns[c].name = name /\ type.columns[c].bind = "Bind"}

\* C25: Select.getDefinition returns the Bind of the table's column of that
\* name when the type of the table is a table type with such a column and
\* its bind is a Bind, whatever the enclosing scopes define; otherwise what
\* the binding enclosure of the select returns, the definition of the
\* nearest scope that defines the name, or undefined without an enclosure.
\* The select is the binding enclosure of its row and its query and of no
\* other node, its table included.
C25_SelectDefinition ==
    /\ call.op = "Select.getDefinition" =>
        LET columns == BindColumns(call.type, call.name)
        IN  IF columns # {}
            THEN ret.kind = "Bind" /\ ret.column \in columns
            ELSE IF call.enclosure = Undefined THEN ret = Undefined
            ELSE IF \E i \in DOMAIN call.enclosure.scopes :
                        call.name \in call.enclosure.scopes[i]
            THEN /\ ret.kind = "Definition"
                 /\ ret.name = call.name
                 /\ call.name \in call.enclosure.scopes[ret.scope]
                 /\ \A i \in 1..(ret.scope - 1) :
                        call.name \notin call.enclosure.scopes[i]
            ELSE ret = Undefined
    /\ call.op = "Select.isBindingEnclosureOfChild" =>
        (ret <=> call.child \in {call.this.row, call.this.query})

\* A column of the table shadows the definition of its name in the scope
\* around the select.
C25_Witness ==
    /\ call.op = "Select.getDefinition"
    /\ call.enclosure # Undefined
    /\ call.name \in call.enclosure.scopes[1]
    /\ ret.kind = "Bind"
    /\ call.type.columns[ret.column].name = call.name

------------------------------------------------------------------------------
(* The value of a set literal *)

\* How many values a set literal holds, and how many values lie on the
\* value stack below those of the set.
MaxSetValues == 2
MaxRest == 2

\* The values that the steps of expressions push.
PushedValues == {TextValue(1), TextValue(2), NumberValue(1)}

\* A set literal of n names.
SetLiteralOf(n) ==
    SetLiteral_make([i \in 1..n |-> [kind |-> "Name"]], [i \in 1..n |-> i])

RECURSIVE pushValues(_, _)
\* The steps between the Start and the Finish of a set literal: the value of
\* each value expression pushed, from the first to the last.
pushValues(e, values) ==
    IF values = <<>> THEN e
    ELSE pushValues(pushValue(e, Head(values)), Tail(values))

\* An evaluator about to finish a set literal: the values of its value
\* expressions are on the value stack, above what was there before, and the
\* set was or was not evaluated before.
InitSetEvaluate ==
    /\ \E pushed \in SeqsUpTo(PushedValues, MaxSetValues) :
       \E rest \in SeqsUpTo(PushedValues, MaxRest) :
       \E prior \in {NoValue, SetValue(None, <<>>)} :
           LET s == SetLiteralOf(Len(pushed))
               e == [Idle EXCEPT !.state = "running",
                                 !.evaluations =
                                     <<Evaluation(s.id, compile(s.h, s.id))>>,
                                 !.values = rest]
           IN  /\ heap = s.h
               /\ root = s.id
               /\ ev = pushValues(e, pushed)
               /\ call = [op |-> "input", this |-> s.id, pushed |-> pushed,
                          rest |-> rest, prior |-> prior,
                          before |-> pushValues(e, pushed)]
    /\ ret = <<>>
    /\ edits = 0
    /\ streams = NoStreams
    /\ scheduler = NoTicks

\* The Finish step of the set literal.
CheckSetEvaluate ==
    /\ call.op = "input"
    /\ LET r == SetLiteral_evaluate(ev, heap, call.this, call.prior)
       IN  /\ ev' = r.e
           /\ ret' = r.value
    /\ call' = [call EXCEPT !.op = "SetLiteral.evaluate"]
    /\ UNCHANGED <<heap, root, edits, streams, scheduler>>

SpecSetEvaluate == InitSetEvaluate /\ [][CheckSetEvaluate]_vars

\* C26: without a prior value SetLiteral.evaluate takes as many values off
\* the value stack as the literal has value expressions, none for an empty
\* literal, leaves what was below them, and returns a Set of the values in
\* the order in which their expressions were evaluated, the first evaluated
\* first; with a prior value it returns that value and the value stack is
\* as it was.
C26_SetLiteralEvaluate ==
    call.op = "SetLiteral.evaluate" =>
        IF call.prior = NoValue
        THEN /\ Len(call.before.values) - Len(ev.values)
                    = Len(heap[call.this].values)
             /\ ev.values = call.rest
             /\ ev = [call.before EXCEPT !.values = call.rest]
             /\ ret = [type |-> "Set", creator |-> call.this,
                       values |-> call.pushed]
        ELSE /\ ret = call.prior
             /\ ev = call.before

\* A set of two different values, built above a value that stays on the
\* stack.
C26_Witness ==
    /\ call.op = "SetLiteral.evaluate"
    /\ call.prior = NoValue
    /\ Len(call.pushed) = 2
    /\ call.pushed[1] # call.pushed[2]
    /\ ret.values = call.pushed
    /\ ev.values # <<>>
    /\ Head(call.before.values) = call.pushed[2]

------------------------------------------------------------------------------
(* The evaluation of a conversion definition *)

\* How many evaluations are on the evaluator's stack.
MaxFrames == 3

\* A set of two conversions.
ProgramConversions ==
    LET a == Leaf(<<>>, "Name")
        c == NewConversionDefinition(a.h, None, None, None, a.id, None)
        b == Leaf(c.h, "Name")
        d == NewConversionDefinition(b.h, None, None, None, b.id, None)
    IN  SetLiteral_make(d.h, <<c.id, d.id>>)

\* The conversion definitions of a program.
ConversionDefinitions(h) ==
    {n \in DOMAIN h : h[n].kind = "ConversionDefinition"}

\* The evaluations that can be on the stack: of the program or of one of its
\* conversions, with no conversion or one conversion defined in it.
Frames(h, r) ==
    UNION {{[Evaluation(n, compile(h, n)) EXCEPT !.conversions = c] :
               c \in {<<>>} \cup {<<[definition |-> d, context |-> n]>> :
                                     d \in ConversionDefinitions(h)}} :
           n \in {r} \cup ConversionDefinitions(h)}

\* An evaluator with any stack of evaluations, the empty one included, about
\* to evaluate a conversion definition.
InitConversionEvaluate ==
    /\ heap = ProgramConversions.h
    /\ root = ProgramConversions.id
    /\ \E this \in ConversionDefinitions(heap) :
       \E evaluations \in SeqsUpTo(Frames(heap, root), MaxFrames) :
           /\ ev = [Idle EXCEPT !.state = "running",
                                !.evaluations = evaluations]
           /\ call = [op |-> "input", this |-> this, before |-> ev]
    /\ ret = <<>>
    /\ edits = 0
    /\ streams = NoStreams
    /\ scheduler = NoTicks

\* The Finish step of the conversion definition.
CheckConversionEvaluate ==
    /\ call.op = "input"
    /\ LET r == ConversionDefinition_evaluate(ev, call.this)
       IN  /\ ev' = r.e
           /\ ret' = r.value
    /\ call' = [call EXCEPT !.op = "ConversionDefinition.evaluate"]
    /\ UNCHANGED <<heap, root, edits, streams, scheduler>>

SpecConversionEvaluate ==
    InitConversionEvaluate /\ [][CheckConversionEvaluate]_vars

\* The conversions registered in the evaluations of an evaluator.
Registered(e) ==
    [f \in DOMAIN e.evaluations |-> e.evaluations[f].conversions]

\* C27: with a current evaluation ConversionDefinition.evaluate adds one
\* Conversion of this definition to the evaluation on top of the stack,
\* leaves every other evaluation as it was, and returns no exception; with
\* an empty stack it returns a ContextException of StackSize.EMPTY and
\* registers no conversion.
C27_ConversionEvaluate ==
    call.op = "ConversionDefinition.evaluate" =>
        IF call.before.evaluations # <<>>
        THEN /\ ret = NoValue
             /\ DOMAIN ev.evaluations = DOMAIN call.before.evaluations
             /\ Registered(ev)[1] =
                    Append(Registered(call.before)[1],
                           [definition |-> call.this,
                            context |-> call.before.evaluations[1].node])
             /\ \A f \in DOMAIN ev.evaluations :
                    f # 1 => ev.evaluations[f] = call.before.evaluations[f]
             /\ ev = [call.before EXCEPT
                         !.evaluations[1].conversions = Registered(ev)[1]]
        ELSE /\ ret = [type |-> "Exception", node |-> None,
                       exception |-> "ContextException", size |-> "EMPTY"]
             /\ ev = call.before
             /\ Registered(ev) = <<>>

\* The conversion joins another in the current evaluation, below which lie
\* two evaluations that keep theirs.
C27_Witness ==
    /\ call.op = "ConversionDefinition.evaluate"
    /\ Len(ev.evaluations) = 3
    /\ Len(Registered(ev)[1]) = 2
    /\ Registered(ev)[1][1].definition # call.this
    /\ Registered(ev)[1][2].definition = call.this
    /\ Len(Registered(ev)[2]) = 1
    /\ Registered(ev)[3] = <<>>

------------------------------------------------------------------------------
(* The body of a conversion definition *)

\* ConversionDefinition.getDependencies
ConversionDefinition_getDependencies(h, this) == <<h[this].expression>>

\* SetLiteral.getDependencies
SetLiteral_getDependencies(h, this) == h[this].values

\* The expressions that the value of a node depends on.
getDependencies(h, this) ==
    IF h[this].kind = "ConversionDefinition"
    THEN ConversionDefinition_getDependencies(h, this)
    ELSE SetLiteral_getDependencies(h, this)

\* Asking a conversion definition or a set literal of the program for its
\* dependencies.
Dependencies ==
    \E n \in Nodes(heap, root) :
        /\ heap[n].kind \in {"ConversionDefinition", "SetLiteral"}
        /\ call' = [op |-> "getDependencies", this |-> n]
        /\ ret' = getDependencies(heap, n)
        /\ UNCHANGED <<heap, root, edits, ev, streams, scheduler>>

\* A program is compiled, asked for dependencies, and run.
NextDefine == Compile \/ Dependencies \/ EvStart \/ EvStep

SpecDefine == Init /\ [][NextDefine]_vars

\* The nodes of the bodies of the conversion definitions of the program.
Bodies ==
    UNION {Nodes(heap, heap[d].expression) :
              d \in {n \in Nodes(heap, root) :
                        heap[n].kind = "ConversionDefinition"}}

\* C28: ConversionDefinition.compile is Start(this) and Finish(this) and
\* nothing else, so no step of the body is between them, although
\* getDependencies returns the body, and nothing but the body, as what the
\* definition depends on; no run of the program takes a step of the body of
\* a conversion definition.
C28_BodyNotEvaluated ==
    /\ Compiled({"ConversionDefinition"}) =>
        /\ ret = <<[step |-> "Start", node |-> call.this],
                   [step |-> "Finish", node |-> call.this]>>
        /\ \A k \in DOMAIN ret :
               ret[k].node \notin Nodes(heap, heap[call.this].expression)
    /\ (call.op = "getDependencies"
            /\ heap[call.this].kind = "ConversionDefinition") =>
        ret = <<heap[call.this].expression>>
    /\ \A k \in DOMAIN ev.trace : ev.trace[k].node \notin Bodies

\* A set that holds a conversion definition ran to its end and the
\* conversion is defined, after the definition was asked for its
\* dependencies.
C28_Witness ==
    /\ call.op = "getDependencies"
    /\ heap[call.this].kind = "ConversionDefinition"
    /\ call.this # root
    /\ ret # <<>>
    /\ ev.state = "done"
    /\ \E k \in DOMAIN ev.trace :
           ev.trace[k] = [step |-> "Finish", node |-> call.this]

====
